---- MODULE Spec2Model ----
(***************************************************************************)
(* Model of the command execution gate ExecTool (src/src/tools/exec_tool.py).*)
(* Text is a sequence of one-character strings, so that substring search,  *)
(* lower-casing, shell-word splitting and path parsing are computed the    *)
(* way the Python code computes them.  The second part models the feature *)
(* development flow (src/src/feature_dev): the methods of FeatureDevFlow,  *)
(* the database functions of persistence.py and trigger_webhooks.          *)
(***************************************************************************)
EXTENDS Integers, Sequences, FiniteSets, TLC

VARIABLES policy, pc, call, ret, raised, spawned

\* The feature development flow (src/src/feature_dev): the database of
\* persistence.py, the FeatureDevFlow instance, the _persist_and_notify
\* calls it has made, and the HTTP traffic of the last trigger_webhooks.
VARIABLES db, flow, calls, http

gatevars == <<policy, pc, call, ret, raised, spawned>>

flowvars == <<db, flow, calls, http>>

vars == <<policy, pc, call, ret, raised, spawned, db, flow, calls, http>>

(***************************************************************************)
(* Bounds of the model.                                                    *)
(***************************************************************************)
MaxOutLen == 2

(***************************************************************************)
(* Text helpers.                                                           *)
(***************************************************************************)
Chars(s) == [i \in 1..Len(s) |-> SubSeq(s, i, i)]

\* The NUL character, which a TLA+ string literal cannot hold.
NUL == "NUL"

UpperAlpha == Chars("ABCDEFGHIJKLMNOPQRSTUVWXYZ")

LowerAlpha == Chars("abcdefghijklmnopqrstuvwxyz")

UpperSet == {UpperAlpha[i] : i \in 1..26}

LowerOf == [c \in UpperSet |-> LowerAlpha[CHOOSE i \in 1..26 : UpperAlpha[i] = c]]

LowerChar(c) == IF c \in UpperSet THEN LowerOf[c] ELSE c

\* str.lower()
Lower(s) == [i \in 1..Len(s) |-> LowerChar(s[i])]

\* needle in hay
Contains(hay, needle) ==
    \E i \in 0..(Len(hay) - Len(needle)) :
        SubSeq(hay, i + 1, i + Len(needle)) = needle

\* s.startswith(p)
StartsWith(s, p) == Len(p) <= Len(s) /\ SubSeq(s, 1, Len(p)) = p

\* x in list
InList(x, list) == \E i \in 1..Len(list) : list[i] = x

RECURSIVE NatStr(_)
NatStr(n) ==
    IF n < 10 THEN <<Chars("0123456789")[n + 1]>>
    ELSE NatStr(n \div 10) \o <<Chars("0123456789")[(n % 10) + 1]>>

\* str(n) of an int
IntStr(n) == IF n < 0 THEN <<"-">> \o NatStr(0 - n) ELSE NatStr(n)

(***************************************************************************)
(* shlex.split(command): posix mode, whitespace_split, no commenters.      *)
(***************************************************************************)
ShlexWhitespace == {" ", "\t", "\r", "\n"}

RECURSIVE ShlexRead(_, _, _, _, _, _, _)
ShlexRead(s, i, st, est, tok, quoted, acc) ==
    IF i > Len(s)
    THEN CASE st \in {"sq", "dq", "esc"} -> [ok |-> FALSE, parts |-> <<>>]
           [] st = "ws" -> [ok |-> TRUE, parts |-> acc]
           [] OTHER ->
                [ok |-> TRUE,
                 parts |-> IF tok # <<>> \/ quoted THEN Append(acc, tok) ELSE acc]
    ELSE LET c == s[i] IN
         CASE st = "ws" ->
                IF c \in ShlexWhitespace
                THEN ShlexRead(s, i + 1, "ws", est, <<>>, FALSE, acc)
                ELSE IF c = "\\"
                THEN ShlexRead(s, i + 1, "esc", "word", <<>>, FALSE, acc)
                ELSE IF c = "'"
                THEN ShlexRead(s, i + 1, "sq", est, <<>>, TRUE, acc)
                ELSE IF c = "\""
                THEN ShlexRead(s, i + 1, "dq", est, <<>>, TRUE, acc)
                ELSE ShlexRead(s, i + 1, "word", est, <<c>>, FALSE, acc)
           [] st = "sq" ->
                IF c = "'"
                THEN ShlexRead(s, i + 1, "word", est, tok, TRUE, acc)
                ELSE ShlexRead(s, i + 1, "sq", est, Append(tok, c), TRUE, acc)
           [] st = "dq" ->
                IF c = "\""
                THEN ShlexRead(s, i + 1, "word", est, tok, TRUE, acc)
                ELSE IF c = "\\"
                THEN ShlexRead(s, i + 1, "esc", "dq", tok, TRUE, acc)
                ELSE ShlexRead(s, i + 1, "dq", est, Append(tok, c), TRUE, acc)
           [] st = "esc" ->
                IF est = "dq" /\ c # "\\" /\ c # "\""
                THEN ShlexRead(s, i + 1, est, est, tok \o <<"\\", c>>, quoted, acc)
                ELSE ShlexRead(s, i + 1, est, est, Append(tok, c), quoted, acc)
           [] OTHER ->
                IF c \in ShlexWhitespace
                THEN IF tok # <<>> \/ quoted
                     THEN ShlexRead(s, i + 1, "ws", est, <<>>, FALSE, Append(acc, tok))
                     ELSE ShlexRead(s, i + 1, "ws", est, <<>>, FALSE, acc)
                ELSE IF c = "'"
                THEN ShlexRead(s, i + 1, "sq", est, tok, TRUE, acc)
                ELSE IF c = "\""
                THEN ShlexRead(s, i + 1, "dq", est, tok, TRUE, acc)
                ELSE IF c = "\\"
                THEN ShlexRead(s, i + 1, "esc", "word", tok, quoted, acc)
                ELSE ShlexRead(s, i + 1, "word", est, Append(tok, c), quoted, acc)

\* [ok |-> FALSE] stands for the ValueError of malformed quoting.
ShlexSplit(s) == ShlexRead(s, 1, "ws", "word", <<>>, FALSE, <<>>)

(***************************************************************************)
(* str.split(): split on runs of whitespace.                               *)
(***************************************************************************)
StrWhitespace == {" ", "\t", "\r", "\n", "\f"}

RECURSIVE StrSplitFrom(_, _, _, _)
StrSplitFrom(s, i, tok, acc) ==
    IF i > Len(s)
    THEN IF tok # <<>> THEN Append(acc, tok) ELSE acc
    ELSE IF s[i] \in StrWhitespace
    THEN StrSplitFrom(s, i + 1, <<>>, IF tok # <<>> THEN Append(acc, tok) ELSE acc)
    ELSE StrSplitFrom(s, i + 1, Append(tok, s[i]), acc)

StrSplit(s) == StrSplitFrom(s, 1, <<>>, <<>>)

(***************************************************************************)
(* pathlib: the components of a path, its name, and resolve().             *)
(***************************************************************************)
RECURSIVE SplitSlashFrom(_, _, _, _)
SplitSlashFrom(s, i, tok, acc) ==
    IF i > Len(s)
    THEN Append(acc, tok)
    ELSE IF s[i] = "/"
    THEN SplitSlashFrom(s, i + 1, <<>>, Append(acc, tok))
    ELSE SplitSlashFrom(s, i + 1, Append(tok, s[i]), acc)

\* The parts of PurePosixPath(p) after the root: empty and "." parts dropped.
PathParts(p) ==
    LET raw == SplitSlashFrom(p, 1, <<>>, <<>>)
    IN  SelectSeq(raw, LAMBDA part : part # <<>> /\ part # <<".">>)

\* Path(p).name
PathName(p) ==
    LET parts == PathParts(p)
    IN  IF parts = <<>> THEN <<>> ELSE parts[Len(parts)]

IsAbsolute(p) == StartsWith(p, <<"/">>)

\* The process's current directory, when it still exists.
ProcCwd == <<Chars("home"), Chars("agent")>>

RECURSIVE Normalize(_, _, _)
Normalize(parts, i, acc) ==
    IF i > Len(parts) THEN acc
    ELSE IF parts[i] = Chars("..")
    THEN Normalize(parts, i + 1,
                   IF acc = <<>> THEN acc ELSE SubSeq(acc, 1, Len(acc) - 1))
    ELSE Normalize(parts, i + 1, Append(acc, parts[i]))

\* Path.cwd(): os.getcwd() raises when the current directory was removed.
PathCwd(getcwdOk) ==
    IF getcwdOk
    THEN [ok |-> TRUE, parts |-> ProcCwd, error |-> <<>>]
    ELSE [ok |-> FALSE, parts |-> <<>>,
          error |-> Chars("[Errno 2] No such file or directory")]

\* Mutant of Resolve: the current directory is asked for before the path is
\* looked at, also for an absolute path.
ResolveFromCwd(p, getcwdOk) ==
    IF \E i \in 1..Len(p) : p[i] = NUL
    THEN [ok |-> FALSE, parts |-> <<>>, error |-> Chars("embedded null byte")]
    ELSE IF ~getcwdOk
    THEN PathCwd(getcwdOk)
    ELSE IF IsAbsolute(p)
    THEN [ok |-> TRUE, parts |-> Normalize(PathParts(p), 1, <<>>), error |-> <<>>]
    ELSE [ok |-> TRUE, parts |-> Normalize(PathParts(p), 1, ProcCwd), error |-> <<>>]

\* Path(p).resolve() on a file system without symbolic links: the absolute,
\* normalised path as its sequence of parts, or the exception text.
Resolve(p, getcwdOk) ==
    IF \E i \in 1..Len(p) : p[i] = NUL
    THEN [ok |-> FALSE, parts |-> <<>>, error |-> Chars("embedded null byte")]
    ELSE IF IsAbsolute(p)
    THEN [ok |-> TRUE, parts |-> Normalize(PathParts(p), 1, <<>>), error |-> <<>>]
    ELSE IF ~getcwdOk
    THEN PathCwd(getcwdOk)
    ELSE [ok |-> TRUE, parts |-> Normalize(PathParts(p), 1, ProcCwd), error |-> <<>>]

\* Mutant of IsRelativeTo: the names are compared as text, so that a name
\* that only starts with the name of the allowed directory counts as inside.
IsRelativeToByText(a, b) ==
    /\ Len(b) <= Len(a)
    /\ \A i \in 1..Len(b) :
           /\ Len(b[i]) <= Len(a[i])
           /\ SubSeq(a[i], 1, Len(b[i])) = b[i]

\* a.is_relative_to(b) on resolved paths
IsRelativeTo(a, b) == Len(b) <= Len(a) /\ SubSeq(a, 1, Len(b)) = b

(***************************************************************************)
(* The default policy lists.                                               *)
(***************************************************************************)
DEFAULT_BLOCKED_PATTERNS ==
    <<Chars("sudo "), Chars("su "), Chars("rm -rf"), Chars("rm -fr"),
      Chars("rm -r /"), Chars("rm -r ~"), Chars("rm -R"), Chars("dd if="),
      Chars("mkfs"), Chars(":(){ :|:& };:"), Chars("chmod -R 777"),
      Chars("chown -R"), Chars("> /dev/sd"), Chars("> /dev/hd"),
      Chars("mv /* "), Chars("wget "), Chars("curl "), Chars("nc -l"),
      Chars("ncat "), Chars("shutdown"), Chars("reboot"), Chars("init 0"),
      Chars("init 6"), Chars("halt"), Chars("poweroff"),
      Chars("systemctl stop"), Chars("service stop"), Chars("kill -9 -1"),
      Chars("killall"), Chars("pkill -9"), Chars("iptables"),
      Chars("ufw disable"), Chars("crontab -r"), Chars("userdel"),
      Chars("usermod"), Chars("passwd"), Chars("visudo")>>

DEFAULT_ALLOWED_COMMANDS ==
    <<Chars("ls"), Chars("cat"), Chars("head"), Chars("tail"), Chars("grep"),
      Chars("find"), Chars("pwd"), Chars("echo"), Chars("wc"), Chars("sort"),
      Chars("uniq"), Chars("cut"), Chars("awk"), Chars("sed"), Chars("tr"),
      Chars("diff"), Chars("touch"), Chars("mkdir"), Chars("cp"),
      Chars("mv"), Chars("rm"), Chars("date"), Chars("which"), Chars("env"),
      Chars("printenv"), Chars("type"), Chars("uname"), Chars("whoami"),
      Chars("id"), Chars("git"), Chars("python"), Chars("python3"),
      Chars("pip"), Chars("pip3"), Chars("npm"), Chars("node"),
      Chars("yarn"), Chars("cargo"), Chars("rustc"), Chars("go"),
      Chars("make"), Chars("cmake"), Chars("gcc"), Chars("g++"),
      Chars("clang"), Chars("pytest"), Chars("jest"), Chars("mypy"),
      Chars("ruff"), Chars("black"), Chars("isort"), Chars("prettier"),
      Chars("eslint"), Chars("tsc"), Chars("uv"), Chars("poetry"),
      Chars("hatch"), Chars("rg"), Chars("fd"), Chars("bat"), Chars("exa"),
      Chars("tree"), Chars("jq"), Chars("yq"), Chars("http"),
      Chars("curlie"), Chars("sleep"), Chars("true"), Chars("false"),
      Chars("test"), Chars("["), Chars("xargs"), Chars("parallel")>>

\* ExecTool(): every field at its default.
DefaultPolicy ==
    [blocked_patterns |-> DEFAULT_BLOCKED_PATTERNS,
     allowed_commands |-> DEFAULT_ALLOWED_COMMANDS,
     max_timeout |-> 300,
     max_output_size |-> 100000,
     allowed_directories |-> <<>>,
     require_allowlist |-> TRUE]

\* Gates constructed with explicit field values.
LaxPolicy ==
    [blocked_patterns |-> <<>>,
     allowed_commands |-> <<Chars("ls"), Chars("rm"), Chars("echo"), Chars("rm")>>,
     max_timeout |-> 300,
     max_output_size |-> 1,
     allowed_directories |-> <<Chars("/work")>>,
     require_allowlist |-> TRUE]

OpenPolicy ==
    [blocked_patterns |-> <<Chars("SUDO "), Chars("foo"), Chars("  ")>>,
     allowed_commands |-> <<Chars("ls")>>,
     max_timeout |-> 2,
     max_output_size |-> 1,
     allowed_directories |-> <<>>,
     require_allowlist |-> FALSE]

InitialPolicies == {DefaultPolicy, LaxPolicy, OpenPolicy}

(***************************************************************************)
(* Optional[str]: None is the empty sequence, a value v is <<v>>.          *)
(***************************************************************************)
None == <<>>

Some(v) == <<v>>

\* Python truthiness of an Optional[str]
Truthy(opt) == opt # None /\ opt[1] # <<>>

(***************************************************************************)
(* The policy checks.                                                      *)
(***************************************************************************)
\* Mutant of ParseCommand: no fallback when the quoting is malformed.
ParseCommandNoFallback(command) ==
    LET r == ShlexSplit(command)
    IN  IF r.ok /\ r.parts # <<>>
        THEN [binary |-> r.parts[1], args |-> r.parts]
        ELSE [binary |-> <<>>, args |-> <<>>]

ParseCommand(command) ==
    LET r == ShlexSplit(command)
        w == StrSplit(command)
    IN  IF r.ok
        THEN IF r.parts = <<>>
             THEN [binary |-> <<>>, args |-> <<>>]
             ELSE [binary |-> r.parts[1], args |-> r.parts]
        ELSE [binary |-> IF w # <<>> THEN w[1] ELSE <<>>, args |-> w]

BlockedMessage(pattern) ==
    Chars("Blocked: command contains forbidden pattern '") \o pattern \o Chars("'")

\* Mutant of PatternMatches: the pattern is not lower-cased.
PatternMatchesCaseSensitive(pattern, cmd_lower) == Contains(cmd_lower, pattern)

\* pattern.lower() in cmd_lower
PatternMatches(pattern, cmd_lower) == Contains(cmd_lower, Lower(pattern))

\* Mutant of CheckBlockedPatterns: only the first pattern is looked at.
CheckBlockedPatternsFirstOnly(pol, command) ==
    IF pol.blocked_patterns # <<>>
       /\ PatternMatches(pol.blocked_patterns[1], Lower(command))
    THEN Some(BlockedMessage(pol.blocked_patterns[1]))
    ELSE None

CheckBlockedPatterns(pol, command) ==
    LET cmd_lower == Lower(command)
        hits == {i \in 1..Len(pol.blocked_patterns) :
                    PatternMatches(pol.blocked_patterns[i], cmd_lower)}
    IN  IF hits = {} THEN None
        ELSE Some(BlockedMessage(
                 pol.blocked_patterns[CHOOSE i \in hits : \A j \in hits : i <= j]))

NotAllowedMessage(binary_name) ==
    Chars("Blocked: '") \o binary_name \o Chars("' is not in allowed commands")

\* Mutant of CheckAllowedCommand: the require_allowlist test inverted.
CheckAllowedCommandInverted(pol, binary) ==
    IF pol.require_allowlist THEN None
    ELSE IF ~InList(PathName(binary), pol.allowed_commands)
    THEN Some(NotAllowedMessage(PathName(binary)))
    ELSE None

CheckAllowedCommand(pol, binary) ==
    IF ~pol.require_allowlist THEN None
    ELSE IF ~InList(PathName(binary), pol.allowed_commands)
    THEN Some(NotAllowedMessage(PathName(binary)))
    ELSE None

DirBlockedMessage(cwd) ==
    Chars("Blocked: directory '") \o cwd \o Chars("' is not in allowed directories")

InvalidDirMessage(e) == Chars("Invalid directory: ") \o e

\* The loop over allowed_directories from index i on: the first entry that
\* fails to resolve raises, the first entry the cwd is relative to accepts.
RECURSIVE DirLoop(_, _, _, _, _)
DirLoop(pol, cwd, resolved, getcwdOk, i) ==
    IF i > Len(pol.allowed_directories)
    THEN Some(DirBlockedMessage(cwd))
    ELSE LET a == Resolve(pol.allowed_directories[i], getcwdOk)
         IN  IF ~a.ok THEN Some(InvalidDirMessage(a.error))
             ELSE IF IsRelativeTo(resolved, a.parts) THEN None
             ELSE DirLoop(pol, cwd, resolved, getcwdOk, i + 1)

ValidateDirectory(pol, cwd, getcwdOk) ==
    IF ~Truthy(cwd) \/ pol.allowed_directories = <<>> THEN None
    ELSE LET r == Resolve(cwd[1], getcwdOk)
         IN  IF ~r.ok THEN Some(InvalidDirMessage(r.error))
             ELSE DirLoop(pol, cwd[1], r.parts, getcwdOk, 1)

dangerous_flags ==
    {Chars("-rf"), Chars("-fr"), Chars("-r"), Chars("-R"),
     Chars("--no-preserve-root")}

protected_paths ==
    {Chars("/"), Chars("~"), Chars("/home"), Chars("/etc"), Chars("/usr"),
     Chars("/var"), Chars("/root")}

RmMessage == Chars("Blocked: recursive rm on protected path")

\* Mutant of ValidateRmCommand: a recursive flag alone is enough to reject.
ValidateRmCommandAnyRecursive(args) ==
    IF \E i \in 1..Len(args) : args[i] \in dangerous_flags
    THEN Some(RmMessage) ELSE None

ValidateRmCommand(args) ==
    LET has_recursive == \E i \in 1..Len(args) : args[i] \in dangerous_flags
        targets_root ==
            \E i \in 1..Len(args) :
                /\ ~StartsWith(args[i], Chars("-"))
                /\ \/ args[i] \in protected_paths
                   \/ /\ StartsWith(args[i], Chars("/"))
                      /\ ~StartsWith(args[i], Chars("/tmp"))
    IN  IF has_recursive /\ targets_root THEN Some(RmMessage) ELSE None

EmptyMessage == Chars("Empty command")

\* Mutant of IsCommandSafe: the allow-list is consulted before the block-list.
IsCommandSafeAllowlistFirst(pol, command, cwd, getcwdOk) ==
    LET p == ParseCommand(command)
        blocked == CheckBlockedPatterns(pol, command)
        not_allowed == CheckAllowedCommand(pol, p.binary)
        dir_error == ValidateDirectory(pol, cwd, getcwdOk)
        rm_error == ValidateRmCommand(p.args)
    IN  IF p.binary = <<>> THEN [ok |-> FALSE, error |-> EmptyMessage]
        ELSE IF not_allowed # None THEN [ok |-> FALSE, error |-> not_allowed[1]]
        ELSE IF blocked # None THEN [ok |-> FALSE, error |-> blocked[1]]
        ELSE IF dir_error # None THEN [ok |-> FALSE, error |-> dir_error[1]]
        ELSE IF PathName(p.binary) = Chars("rm") /\ rm_error # None
        THEN [ok |-> FALSE, error |-> rm_error[1]]
        ELSE [ok |-> TRUE, error |-> <<>>]

\* Mutant of IsCommandSafe: the block-list is consulted before the binary is
\* tested for being empty.
IsCommandSafeBlockedFirst(pol, command, cwd, getcwdOk) ==
    LET p == ParseCommand(command)
        blocked == CheckBlockedPatterns(pol, command)
        not_allowed == CheckAllowedCommand(pol, p.binary)
        dir_error == ValidateDirectory(pol, cwd, getcwdOk)
        rm_error == ValidateRmCommand(p.args)
    IN  IF blocked # None THEN [ok |-> FALSE, error |-> blocked[1]]
        ELSE IF p.binary = <<>> THEN [ok |-> FALSE, error |-> EmptyMessage]
        ELSE IF not_allowed # None THEN [ok |-> FALSE, error |-> not_allowed[1]]
        ELSE IF dir_error # None THEN [ok |-> FALSE, error |-> dir_error[1]]
        ELSE IF PathName(p.binary) = Chars("rm") /\ rm_error # None
        THEN [ok |-> FALSE, error |-> rm_error[1]]
        ELSE [ok |-> TRUE, error |-> <<>>]

\* The first failing check decides; [ok |-> TRUE, error |-> ""] when none fails.
IsCommandSafe(pol, command, cwd, getcwdOk) ==
    LET p == ParseCommand(command)
        blocked == CheckBlockedPatterns(pol, command)
        not_allowed == CheckAllowedCommand(pol, p.binary)
        dir_error == ValidateDirectory(pol, cwd, getcwdOk)
        rm_error == ValidateRmCommand(p.args)
    IN  IF p.binary = <<>> THEN [ok |-> FALSE, error |-> EmptyMessage]
        ELSE IF blocked # None THEN [ok |-> FALSE, error |-> blocked[1]]
        ELSE IF not_allowed # None THEN [ok |-> FALSE, error |-> not_allowed[1]]
        ELSE IF dir_error # None THEN [ok |-> FALSE, error |-> dir_error[1]]
        ELSE IF PathName(p.binary) = Chars("rm") /\ rm_error # None
        THEN [ok |-> FALSE, error |-> rm_error[1]]
        ELSE [ok |-> TRUE, error |-> <<>>]

(***************************************************************************)
(* The results execute returns.                                            *)
(***************************************************************************)
Min(a, b) == IF a <= b THEN a ELSE b

\* Mutant of Slice: one character more than the cap is kept.
SliceOneMore(s, n) == SubSeq(s, 1, Min(n + 1, Len(s)))

\* s[:n]
Slice(s, n) ==
    IF n >= 0 THEN SubSeq(s, 1, Min(n, Len(s)))
    ELSE SubSeq(s, 1, IF Len(s) + n > 0 THEN Len(s) + n ELSE 0)

\* Mutant of ClampTimeout: the requested timeout is passed on as it is.
ClampTimeoutUnclamped(timeout, max_timeout) == timeout

\* min(timeout, self.max_timeout)
ClampTimeout(timeout, max_timeout) == Min(timeout, max_timeout)

\* Mutant of RejectResult: the rejection reported with a process-style code.
RejectResultExitOne(error) ==
    [success |-> FALSE, exit_code |-> 1, stdout |-> <<>>, stderr |-> error,
     duration_ms |-> 0]

RejectResult(error) ==
    [success |-> FALSE, exit_code |-> -1, stdout |-> <<>>, stderr |-> error,
     duration_ms |-> 0]

OutputNotice(n) ==
    <<"\n">> \o Chars("[Output truncated - ") \o IntStr(n) \o Chars(" bytes total]")

StderrNotice(n) ==
    <<"\n">> \o Chars("[Stderr truncated - ") \o IntStr(n) \o Chars(" bytes total]")

\* Mutant of CompletedResult: every return code that is not negative counts
\* as success.
CompletedResultNonNegative(pol, returncode, out, err, elapsed) ==
    LET cut == Slice(err, pol.max_output_size)
        withOut == IF Len(out) > pol.max_output_size
                   THEN cut \o <<"\n">> \o Chars("[Output truncated - ")
                        \o IntStr(Len(out)) \o Chars(" bytes total]")
                   ELSE cut
        withErr == IF Len(err) > pol.max_output_size
                   THEN withOut \o <<"\n">> \o Chars("[Stderr truncated - ")
                        \o IntStr(Len(err)) \o Chars(" bytes total]")
                   ELSE withOut
    IN  [success |-> returncode >= 0, exit_code |-> returncode,
         stdout |-> Slice(out, pol.max_output_size), stderr |-> withErr,
         duration_ms |-> elapsed]

CompletedResult(pol, returncode, out, err, elapsed) ==
    LET cut == Slice(err, pol.max_output_size)
        withOut == IF Len(out) > pol.max_output_size
                   THEN cut \o OutputNotice(Len(out)) ELSE cut
        withErr == IF Len(err) > pol.max_output_size
                   THEN withOut \o StderrNotice(Len(err)) ELSE withOut
    IN  [success |-> returncode = 0, exit_code |-> returncode,
         stdout |-> Slice(out, pol.max_output_size), stderr |-> withErr,
         duration_ms |-> elapsed]

TimeoutMessage(timeout) ==
    Chars("Command timed out after ") \o IntStr(timeout) \o Chars("s")

\* Mutant of TimeoutResult: the duration is left in seconds.
TimeoutResultSeconds(timeout) ==
    [success |-> FALSE, exit_code |-> -1, stdout |-> <<>>,
     stderr |-> TimeoutMessage(timeout), duration_ms |-> timeout]

TimeoutResult(timeout) ==
    [success |-> FALSE, exit_code |-> -1, stdout |-> <<>>,
     stderr |-> TimeoutMessage(timeout), duration_ms |-> timeout * 1000]

FaultResult(e, elapsed) ==
    [success |-> FALSE, exit_code |-> -1, stdout |-> <<>>,
     stderr |-> Chars("Execution error: ") \o e, duration_ms |-> elapsed]

(***************************************************************************)
(* subprocess.run(command, shell=True): the shell splits the command line  *)
(* at its control operators and starts the first word of every part.       *)
(***************************************************************************)
ShellOperators == {Chars(";"), Chars("|"), Chars("&&"), Chars("||")}

RECURSIVE ShellSegmentsFrom(_, _, _, _, _)
ShellSegmentsFrom(words, i, op, atStart, acc) ==
    IF i > Len(words) THEN acc
    ELSE IF words[i] \in ShellOperators
    THEN ShellSegmentsFrom(words, i + 1, words[i], TRUE, acc)
    ELSE IF atStart
    THEN ShellSegmentsFrom(words, i + 1, op, FALSE,
                           Append(acc, [op |-> op, prog |-> words[i]]))
    ELSE ShellSegmentsFrom(words, i + 1, op, FALSE, acc)

\* The programs of the command line in order, each with the operator before it.
ShellSegments(command) ==
    LET r == ShlexSplit(command)
    IN  IF r.ok THEN ShellSegmentsFrom(r.parts, 1, Chars(";"), TRUE, <<>>) ELSE <<>>

\* How many of the programs get started: all of them, or the ones up to an
\* && or || whose left side decided that the right side is skipped.
RunCounts(segs) ==
    {Len(segs)} \cup
    {k \in 1..(Len(segs) - 1) : segs[k + 1].op \in {Chars("&&"), Chars("||")}}

\* How many of the programs were started when the timeout struck: the ones
\* up to the program the shell was waiting for, with the whole of its
\* pipeline.
TimeoutCounts(segs) ==
    IF segs = <<>> THEN {0}
    ELSE {k \in 1..Len(segs) : k = Len(segs) \/ segs[k + 1].op # Chars("|")}

Started(segs, n) == [i \in 1..n |-> PathName(segs[i].prog)]

(***************************************************************************)
(* Inputs of the operations and outcomes of the environment.               *)
(***************************************************************************)
Commands ==
    {Chars("ls"), Chars("ls -la | grep x"), Chars("ls ; foo"),
     Chars("echo hi | sh"), Chars("ls && foo"), Chars("foo --bar"),
     Chars("/usr/bin/foo"), Chars(""), Chars("  "), Chars("\f"),
     Chars("'' sudo x"),
     Chars("sudo ls"), Chars("ls | CURL x"), Chars("rm -rf /"),
     Chars("rm -rf ./build"), Chars("/bin/rm -v -r build"),
     Chars("rm -v -r /tmpfoo"), Chars("rm -v -r /tmp/x"),
     Chars("rm -v -r /etc"), Chars("rm -v /etc"), Chars("rm -v -r ~"),
     Chars("rm -v -rfv /etc"), Chars("rm -v -r 'a"), Chars("echo 'a"),
     Chars("rm -v --no-preserve-root /"), Chars("rm -v -r build"),
     Chars("Rm -v -r /"), Chars("rm -v -r /srv/data")}

TimeoutInputs == {2, 10000}

CwdInputs ==
    {None, Some(Chars("")), Some(Chars("/work/sub")), Some(Chars("/etc")),
     Some(Chars("/work") \o <<NUL>>), Some(Chars("/work")),
     Some(Chars("/workx")), Some(Chars("/work/../etc")), Some(Chars("sub"))}

\* What the subprocess wrote to one stream.
Outputs == UNION {[1..n -> {"x"}] : n \in 0..MaxOutLen}

ReturnCodes == {0, 1, -1}

ElapsedMs == {12}

\* Faults of a launch in a directory that exists: here the captured output
\* is not text.
FaultTexts == {Chars("'utf-8' codec can't decode byte 0xff")}

\* str(path) of a resolved path
RECURSIVE PathStr(_)
PathStr(parts) ==
    IF parts = <<>> THEN <<>>
    ELSE <<"/">> \o parts[1] \o PathStr(SubSeq(parts, 2, Len(parts)))

\* The fault of a launch in a directory that does not exist.
NoSuchDirectory(work_dir) ==
    Chars("[Errno 2] No such file or directory: '") \o PathStr(work_dir)
    \o Chars("'")


AllowInputs == {Chars("foo")}

RemoveInputs == {Chars("rm"), Chars("foo")}

BlockInputs == {Chars("ls ")}

(***************************************************************************)
(* The state: the gate's policy, the position of the caller, and the call  *)
(* in progress with what it returned or raised and the subprocess.run call *)
(* it made: the command line, the timeout and directory it passed, the     *)
(* programs the shell started, how the call ended (the shell exited in     *)
(* time, the timeout struck, or the launch failed), the return code and    *)
(* what the shell wrote when it exited, and the started programs that are  *)
(* still running when execute returns.                                     *)
(***************************************************************************)
Init ==
    /\ policy \in InitialPolicies
    /\ pc = "idle"
    /\ call = None
    /\ ret = None
    /\ raised = None
    /\ spawned = None
    /\ db = None
    /\ flow = None
    /\ calls = <<>>
    /\ http = None

\* The programs of the command line that can still be running once
\* subprocess.run has killed the shell on a timeout. Only the shell, its
\* direct child, is signalled, and run() is called without a new session or
\* process group: the program the shell was waiting for, the n-th of total,
\* lives on in a process of its own, unless it is the last of the command
\* line and the shell replaced itself with it.
Survivors(n, total) ==
    IF n = 0 THEN {{}}
    ELSE IF n < total THEN {{n}}
    ELSE {{}, {n}}

Execute(command, timeout, cwd, getcwdOk, cwdExists) ==
    /\ pc = "idle"
    /\ pc' = "returned"
    /\ policy' = policy
    /\ UNCHANGED flowvars
    /\ call' = Some([command |-> command, timeout |-> timeout, cwd |-> cwd,
                     getcwdOk |-> getcwdOk, cwdExists |-> cwdExists])
    /\ LET safe == IsCommandSafe(policy, command, cwd, getcwdOk)
           clamped == ClampTimeout(timeout, policy.max_timeout)
           work_dir == IF Truthy(cwd) THEN Resolve(cwd[1], getcwdOk)
                       ELSE PathCwd(getcwdOk)
           segs == ShellSegments(command)
           run(n, outcome, exit, left) ==
               [command |-> command, timeout |-> clamped,
                cwd |-> work_dir.parts, ran |-> Started(segs, n),
                outcome |-> outcome, exit |-> exit, left |-> left]
       IN  IF ~safe.ok
           THEN /\ ret' = Some(RejectResult(safe.error))
                /\ raised' = None
                /\ spawned' = None
           ELSE IF ~work_dir.ok
           THEN /\ ret' = None
                /\ raised' = Some(work_dir.error)
                /\ spawned' = None
           ELSE IF ~cwdExists
           THEN \E elapsed \in ElapsedMs :
                      /\ ret' = Some(FaultResult(NoSuchDirectory(work_dir.parts),
                                                 elapsed))
                      /\ raised' = None
                      /\ spawned' = Some(run(0, "fault", None, {}))
           ELSE \/ \E returncode \in ReturnCodes, out \in Outputs, err \in Outputs,
                      elapsed \in ElapsedMs, n \in RunCounts(segs) :
                      /\ ret' = Some(CompletedResult(policy, returncode, out, err,
                                                     elapsed))
                      /\ raised' = None
                      /\ spawned' = Some(run(n, "exit",
                                             Some([returncode |-> returncode,
                                                   stdout |-> out,
                                                   stderr |-> err]), {}))
                \/ \E n \in TimeoutCounts(segs) :
                      \E left \in Survivors(n, Len(segs)) :
                         /\ ret' = Some(TimeoutResult(clamped))
                         /\ raised' = None
                         /\ spawned' = Some(run(n, "timeout", None, left))
                \/ \E e \in FaultTexts, elapsed \in ElapsedMs :
                      /\ ret' = Some(FaultResult(e, elapsed))
                      /\ raised' = None
                      /\ spawned' = Some(run(0, "fault", None, {}))

\* The call is over: the caller holds what execute returned and the gate
\* keeps nothing of it.
Return ==
    /\ pc = "returned"
    /\ pc' = "idle"
    /\ call' = None
    /\ ret' = None
    /\ raised' = None
    /\ spawned' = None
    /\ policy' = policy
    /\ UNCHANGED flowvars

\* list.remove(x): drops the first occurrence.
RemoveFirst(list, x) ==
    LET i == CHOOSE k \in 1..Len(list) :
                 list[k] = x /\ \A j \in 1..(k - 1) : list[j] # x
    IN  SubSeq(list, 1, i - 1) \o SubSeq(list, i + 1, Len(list))

\* Mutant of AddAllowedCommand: the command is appended to the wrong list.
AddAllowedCommandToBlocked(pol, command) ==
    IF ~InList(command, pol.allowed_commands)
    THEN [pol EXCEPT !.blocked_patterns = Append(@, command)]
    ELSE pol

\* The policy after add_allowed_command(command)
AddAllowedCommand(pol, command) ==
    IF ~InList(command, pol.allowed_commands)
    THEN [pol EXCEPT !.allowed_commands = Append(@, command)]
    ELSE pol

\* The policy after remove_allowed_command(command)
RemoveAllowedCommand(pol, command) ==
    IF InList(command, pol.allowed_commands)
    THEN [pol EXCEPT !.allowed_commands = RemoveFirst(@, command)]
    ELSE pol

\* Mutant of AddBlockedPattern: the new pattern replaces the list.
AddBlockedPatternAlone(pol, pattern) ==
    IF ~InList(pattern, pol.blocked_patterns)
    THEN [pol EXCEPT !.blocked_patterns = <<pattern>>]
    ELSE pol

\* The policy after add_blocked_pattern(pattern)
AddBlockedPattern(pol, pattern) ==
    IF ~InList(pattern, pol.blocked_patterns)
    THEN [pol EXCEPT !.blocked_patterns = Append(@, pattern)]
    ELSE pol

add_allowed_command(command) ==
    /\ pc = "idle"
    /\ policy' = AddAllowedCommand(policy, command)
    /\ UNCHANGED <<pc, call, ret, raised, spawned, db, flow, calls, http>>

remove_allowed_command(command) ==
    /\ pc = "idle"
    /\ policy' = RemoveAllowedCommand(policy, command)
    /\ UNCHANGED <<pc, call, ret, raised, spawned, db, flow, calls, http>>

add_blocked_pattern(pattern) ==
    /\ pc = "idle"
    /\ policy' = AddBlockedPattern(policy, pattern)
    /\ UNCHANGED <<pc, call, ret, raised, spawned, db, flow, calls, http>>

\* os.getcwd() is reached for a missing, empty or relative cwd only.
GetcwdOutcomes(cwd) ==
    IF Truthy(cwd) /\ IsAbsolute(cwd[1]) THEN {TRUE} ELSE BOOLEAN

\* The directory a non-empty cwd names exists or not; a name with a NUL
\* names none, and the process's own directory is there when getcwd works.
ExistOutcomes(cwd) ==
    IF ~Truthy(cwd) THEN {TRUE}
    ELSE IF \E i \in 1..Len(cwd[1]) : cwd[1][i] = NUL THEN {FALSE}
    ELSE BOOLEAN

Next ==
    \/ /\ pc = "idle"
       /\ \E command \in Commands, timeout \in TimeoutInputs, cwd \in CwdInputs :
             \E getcwdOk \in GetcwdOutcomes(cwd), cwdExists \in ExistOutcomes(cwd) :
                 Execute(command, timeout, cwd, getcwdOk, cwdExists)
    \/ Return
    \/ \E command \in AllowInputs : add_allowed_command(command)
    \/ \E command \in RemoveInputs : remove_allowed_command(command)
    \/ \E pattern \in BlockInputs : add_blocked_pattern(pattern)

Spec == Init /\ [][Next]_vars

(***************************************************************************)
(* execute step by step, with the administrative operations called from    *)
(* another thread.  The gate takes no lock: is_command_safe reads           *)
(* blocked_patterns, allowed_commands and allowed_directories one check     *)
(* after the other and execute reads max_timeout after that, and another    *)
(* thread can change the lists between any two of these reads.  pc is the   *)
(* step the calling thread takes next; the call records the policy values   *)
(* that were in force while it was in flight (seen) and the value each      *)
(* check read (read).                                                       *)
(***************************************************************************)
ThreadPolicies == {DefaultPolicy, LaxPolicy}

ThreadCommands ==
    {Chars("foo --bar"), Chars("ls"), Chars("ls | CURL x"), Chars("rm -rf /"),
     Chars("")}

ThreadCwdInputs == {None, Some(Chars("/etc"))}

ThreadTimeout == 2

ThreadNames == {Chars("foo")}

ThreadPatterns == {Chars("foo")}

ThreadInit ==
    /\ policy \in ThreadPolicies
    /\ pc = "idle"
    /\ call = None
    /\ ret = None
    /\ raised = None
    /\ spawned = None
    /\ db = None
    /\ flow = None
    /\ calls = <<>>
    /\ http = None

\* The read of the policy that a step of the call makes.
Reads == [call EXCEPT ![1].read = Append(@, policy)]

\* A step of the call that rejects the request.
Rejects(error) ==
    /\ pc' = "returned"
    /\ ret' = Some(RejectResult(error))
    /\ UNCHANGED <<policy, raised, spawned, db, flow, calls, http>>

\* A step of the call that passes on to the next one.
Passes(next) ==
    /\ pc' = next
    /\ UNCHANGED <<policy, ret, raised, spawned, db, flow, calls, http>>

\* execute is called; is_command_safe parses the command.
ThreadBegin(command, cwd) ==
    /\ pc = "idle"
    /\ call' = Some([command |-> command, timeout |-> ThreadTimeout,
                     cwd |-> cwd, getcwdOk |-> TRUE, cwdExists |-> TRUE,
                     seen |-> {policy}, read |-> <<>>])
    /\ IF ParseCommand(command).binary = <<>>
       THEN Rejects(EmptyMessage)
       ELSE Passes("check_blocked")

ThreadCheckBlocked ==
    /\ pc = "check_blocked"
    /\ call' = Reads
    /\ LET blocked == CheckBlockedPatterns(policy, call[1].command)
       IN  IF blocked # None THEN Rejects(blocked[1])
           ELSE Passes("check_allowed")

ThreadCheckAllowed ==
    /\ pc = "check_allowed"
    /\ call' = Reads
    /\ LET not_allowed ==
               CheckAllowedCommand(policy, ParseCommand(call[1].command).binary)
       IN  IF not_allowed # None THEN Rejects(not_allowed[1])
           ELSE Passes("check_directory")

ThreadCheckDirectory ==
    /\ pc = "check_directory"
    /\ call' = Reads
    /\ LET dir_error == ValidateDirectory(policy, call[1].cwd, call[1].getcwdOk)
       IN  IF dir_error # None THEN Rejects(dir_error[1])
           ELSE Passes("check_rm")

ThreadCheckRm ==
    /\ pc = "check_rm"
    /\ call' = call
    /\ LET p == ParseCommand(call[1].command)
           rm_error == ValidateRmCommand(p.args)
       IN  IF PathName(p.binary) = Chars("rm") /\ rm_error # None
           THEN Rejects(rm_error[1])
           ELSE Passes("run")

\* The command passed is_command_safe: execute reads max_timeout and runs it.
ThreadRun ==
    /\ pc = "run"
    /\ pc' = "returned"
    /\ call' = Reads
    /\ policy' = policy
    /\ raised' = None
    /\ UNCHANGED flowvars
    /\ LET clamped == ClampTimeout(call[1].timeout, policy.max_timeout)
           work_dir == IF Truthy(call[1].cwd)
                       THEN Resolve(call[1].cwd[1], call[1].getcwdOk)
                       ELSE PathCwd(call[1].getcwdOk)
           segs == ShellSegments(call[1].command)
           run(outcome, exit, left) ==
               [command |-> call[1].command, timeout |-> clamped,
                cwd |-> work_dir.parts, ran |-> Started(segs, Len(segs)),
                outcome |-> outcome, exit |-> exit, left |-> left]
       IN  \/ \E returncode \in ReturnCodes :
                 /\ ret' = Some(CompletedResult(policy, returncode, <<>>, <<>>, 12))
                 /\ spawned' = Some(run("exit",
                                        Some([returncode |-> returncode,
                                              stdout |-> <<>>, stderr |-> <<>>]),
                                        {}))
           \/ \E left \in Survivors(Len(segs), Len(segs)) :
                 /\ ret' = Some(TimeoutResult(clamped))
                 /\ spawned' = Some(run("timeout", None, left))

ThreadReturn ==
    /\ pc = "returned"
    /\ pc' = "idle"
    /\ call' = None
    /\ ret' = None
    /\ raised' = None
    /\ spawned' = None
    /\ policy' = policy
    /\ UNCHANGED flowvars

\* The other thread changed the policy to next, between two steps of the
\* call if one is in flight.
OtherThread(next) ==
    /\ policy' = next
    /\ call' = IF call = None THEN call
               ELSE [call EXCEPT ![1].seen = @ \cup {next}]
    /\ UNCHANGED <<pc, ret, raised, spawned, db, flow, calls, http>>

ThreadAddAllowedCommand(command) ==
    OtherThread(AddAllowedCommand(policy, command))

ThreadRemoveAllowedCommand(command) ==
    OtherThread(RemoveAllowedCommand(policy, command))

ThreadAddBlockedPattern(pattern) ==
    OtherThread(AddBlockedPattern(policy, pattern))

ThreadNext ==
    \/ \E command \in ThreadCommands, cwd \in ThreadCwdInputs :
           ThreadBegin(command, cwd)
    \/ ThreadCheckBlocked
    \/ ThreadCheckAllowed
    \/ ThreadCheckDirectory
    \/ ThreadCheckRm
    \/ ThreadRun
    \/ ThreadReturn
    \/ \E command \in ThreadNames : ThreadAddAllowedCommand(command)
    \/ \E command \in ThreadNames : ThreadRemoveAllowedCommand(command)
    \/ \E pattern \in ThreadPatterns : ThreadAddBlockedPattern(pattern)

SpecThreads == ThreadInit /\ [][ThreadNext]_vars

(***************************************************************************)
(* Properties of execute.  They read the state in which a call has         *)
(* returned: the request in call, the policy it ran under, and what it     *)
(* returned, raised and spawned.                                           *)
(***************************************************************************)
Returned == pc = "returned"

\* The verdict of the policy on the request of the call.
Verdict ==
    IsCommandSafe(policy, call[1].command, call[1].cwd, call[1].getcwdOk)

Parsed == ParseCommand(call[1].command)

\* The call returned a result without having started a subprocess.
Rejected ==
    /\ spawned = None
    /\ raised = None
    /\ ret # None
    /\ ret[1].success = FALSE
    /\ ret[1].exit_code = -1
    /\ ret[1].stdout = <<>>
    /\ ret[1].duration_ms = 0

\* pattern occurs in command when both are compared case-insensitively
MatchesIgnoringCase(pattern, command) ==
    \E i \in 0..(Len(command) - Len(pattern)) :
        \A k \in 1..Len(pattern) :
            LowerChar(command[i + k]) = LowerChar(pattern[k])

MatchingPatterns ==
    {i \in 1..Len(policy.blocked_patterns) :
        MatchesIgnoringCase(policy.blocked_patterns[i], call[1].command)}

\* C1: whenever is_command_safe rejects the request, execute spawns no
\* subprocess and returns exactly success=false, exit_code=-1, stdout="",
\* stderr = the (non-empty) rejection reason, duration_ms=0.
C1_RejectionResult ==
    Returned =>
        LET verdict == Verdict
        IN  ~verdict.ok =>
                /\ spawned = None
                /\ raised = None
                /\ verdict.error # <<>>
                /\ ret = Some([success |-> FALSE, exit_code |-> -1,
                               stdout |-> <<>>, stderr |-> verdict.error,
                               duration_ms |-> 0])

\* A request rejected by the destructive-rm check, the last of the checks.
C1_Witness ==
    /\ Returned
    /\ ~Verdict.ok
    /\ Rejected
    /\ ret[1].stderr = RmMessage

\* The command of the call has a character that is not whitespace.
NotBlank == StrSplit(call[1].command) # <<>>

\* C2 as stated: a command that contains a blocked pattern, compared
\* case-insensitively, is rejected without a subprocess and the stderr names
\* a matching pattern.  Stated here for the commands that are not blank; it
\* fails for blank ones in the same way.
C2_Original ==
    (Returned /\ NotBlank) =>
        LET matching == MatchingPatterns
        IN  matching # {} =>
                /\ Rejected
                /\ \E i \in matching :
                       ret[1].stderr = BlockedMessage(policy.blocked_patterns[i])

\* C2 amended: a command that contains a blocked pattern, compared
\* case-insensitively, is rejected without a subprocess; the stderr names the
\* first matching pattern of the list when the parsed binary is not empty,
\* and is "Empty command" when it is empty.
C2_Amended ==
    Returned =>
        LET matching == MatchingPatterns
            binary == Parsed.binary
        IN  matching # {} =>
                /\ Rejected
                /\ binary # <<>> =>
                       \E i \in matching :
                           /\ \A j \in matching : i <= j
                           /\ ret[1].stderr =
                                  BlockedMessage(policy.blocked_patterns[i])
                /\ binary = <<>> => ret[1].stderr = Chars("Empty command")

\* The pattern "curl " caught behind a pipe and in another case.
C2_Witness ==
    /\ Returned
    /\ call[1].command = Chars("ls | CURL x")
    /\ MatchingPatterns # {}
    /\ Rejected
    /\ ret[1].stderr = BlockedMessage(Chars("curl "))

\* C3: with require_allowlist true, a command whose parsed binary has a
\* basename that is not in allowed_commands is rejected and nothing is
\* spawned; with require_allowlist false no call is rejected for the
\* allow-list.
C3_AllowlistRejects ==
    Returned =>
        LET basename == PathName(Parsed.binary)
        IN  /\ (policy.require_allowlist
                /\ ~InList(basename, policy.allowed_commands))
                   => Rejected
            /\ (~policy.require_allowlist /\ ret # None)
                   => ret[1].stderr # NotAllowedMessage(basename)

\* A binary given by its path, whose basename is not allowed, is turned away
\* by the allow-list check.
C3_Witness ==
    /\ Returned
    /\ policy.require_allowlist
    /\ call[1].command = Chars("/usr/bin/foo")
    /\ ~InList(Chars("foo"), policy.allowed_commands)
    /\ Rejected
    /\ ret[1].stderr = NotAllowedMessage(Chars("foo"))

\* C4 as stated: with require_allowlist true, every program that runs as a
\* result of an execute call has a basename in allowed_commands.
C4_OnlyAllowlistedRun ==
    (Returned /\ policy.require_allowlist /\ spawned # None) =>
        \A i \in 1..Len(spawned[1].ran) :
            InList(spawned[1].ran[i], policy.allowed_commands)

\* C5 as stated: no exception escapes execute; every call returns a result.
C5_NoExceptionEscapes ==
    Returned => (raised = None /\ ret # None)

\* The outcome of each of the four checks on the request of the call, in the
\* order blocked-pattern, allow-list, directory, destructive-rm.
CheckOutcomes ==
    LET p == Parsed
    IN  <<CheckBlockedPatterns(policy, call[1].command),
          CheckAllowedCommand(policy, p.binary),
          ValidateDirectory(policy, call[1].cwd, call[1].getcwdOk),
          IF PathName(p.binary) = Chars("rm")
          THEN ValidateRmCommand(p.args) ELSE None>>

Violated(outcomes) == {i \in 1..4 : outcomes[i] # None}

Earliest(violated) == CHOOSE i \in violated : \A j \in violated : i <= j

\* C6 as stated: for a request that violates several checks the rejection
\* reason is that of the earliest violated check in the order blocked-pattern,
\* allow-list, directory, destructive-rm.  Stated here for the commands that
\* are not blank; it fails for blank ones in the same way.
C6_Original ==
    (Returned /\ NotBlank) =>
        LET outcomes == CheckOutcomes
            violated == Violated(outcomes)
        IN  Cardinality(violated) >= 2 =>
                /\ Rejected
                /\ ret[1].stderr = outcomes[Earliest(violated)][1]

\* C6 amended: a request whose parsed binary is empty is rejected with
\* "Empty command" before any check; for every other request that violates
\* one or several checks the rejection reason is that of the earliest
\* violated check in the order blocked-pattern, allow-list, directory,
\* destructive-rm.
C6_Amended ==
    Returned =>
        LET p == Parsed
            b == CheckBlockedPatterns(policy, call[1].command)
            a == CheckAllowedCommand(policy, p.binary)
            d == ValidateDirectory(policy, call[1].cwd, call[1].getcwdOk)
            r == IF PathName(p.binary) = Chars("rm")
                 THEN ValidateRmCommand(p.args) ELSE None
            earliest == IF b # None THEN b
                        ELSE IF a # None THEN a
                        ELSE IF d # None THEN d
                        ELSE r
        IN  /\ p.binary = <<>> =>
                   (Rejected /\ ret[1].stderr = Chars("Empty command"))
            /\ (p.binary # <<>> /\ earliest # None) =>
                   (Rejected /\ ret[1].stderr = earliest[1])

\* A request that violates the directory check and the destructive-rm check
\* is turned away with the reason of the directory check.
C6_Witness ==
    /\ Returned
    /\ Parsed.binary # <<>>
    /\ Violated(CheckOutcomes) = {3, 4}
    /\ Rejected
    /\ ret[1].stderr = DirBlockedMessage(call[1].cwd[1])

\* C7 as stated: under the default policy "rm -rf /" is rejected and
\* "rm -rf ./build" passes every policy check and reaches the executor.
C7_Original ==
    (Returned /\ policy = DefaultPolicy /\ call[1].cwd = None /\ call[1].getcwdOk) =>
        /\ call[1].command = Chars("rm -rf /") => Rejected
        /\ call[1].command = Chars("rm -rf ./build") => (Verdict.ok /\ spawned # None)

\* C7 amended: under the default policy "rm -rf /" and "rm -rf ./build" are
\* both rejected, for the blocked pattern "rm -rf", and neither reaches the
\* executor; under a policy none of whose blocked patterns occurs in them and
\* whose allow-list and directory checks they pass, "rm -rf /" is rejected by
\* the destructive-rm check and "rm -rf ./build" passes the policy checks.
C7_Amended ==
    (Returned /\ call[1].command \in {Chars("rm -rf /"), Chars("rm -rf ./build")}) =>
        LET outcomes == CheckOutcomes
        IN  /\ policy = DefaultPolicy
                   => (Rejected /\ ret[1].stderr = BlockedMessage(Chars("rm -rf")))
            /\ (MatchingPatterns = {} /\ outcomes[2] = None /\ outcomes[3] = None)
                   => /\ call[1].command = Chars("rm -rf /") =>
                            (Rejected /\ ret[1].stderr = RmMessage)
                      /\ call[1].command = Chars("rm -rf ./build") =>
                            (Verdict.ok /\ (spawned # None \/ raised # None))

\* The default gate turns "rm -rf ./build" away.
C7_Witness ==
    /\ Returned
    /\ policy = DefaultPolicy
    /\ call[1].command = Chars("rm -rf ./build")
    /\ Rejected
    /\ ret[1].stderr = BlockedMessage(Chars("rm -rf"))

\* The deletion targets of an rm command: its arguments after the binary
\* that are not flags.
DeletionTargets(args) ==
    {args[i] : i \in {k \in 2..Len(args) : ~StartsWith(args[k], Chars("-"))}}

UnderTmp(path) == path = Chars("/tmp") \/ StartsWith(path, Chars("/tmp/"))

\* C8 as stated: for a command whose binary has basename rm, the
\* destructive-removal check rejects if and only if some argument is exactly
\* one of -r, -R, -rf, -fr, --no-preserve-root and some non-flag deletion
\* target is one of /, ~, /home, /etc, /usr, /var, /root or is an absolute
\* path not under /tmp.  Stated here for the calls that resolve their
\* working directory.
C8_RmRejectsIff ==
    (Returned /\ raised = None) =>
        LET p == Parsed
            outcomes == CheckOutcomes
        IN  (/\ p.binary # <<>>
             /\ PathName(p.binary) = Chars("rm")
             /\ \A i \in 1..3 : outcomes[i] = None) =>
                ((Rejected /\ ret[1].stderr = RmMessage)
                 <=> /\ \E i \in 2..Len(p.args) :
                            p.args[i] \in {Chars("-r"), Chars("-R"), Chars("-rf"),
                                           Chars("-fr"), Chars("--no-preserve-root")}
                     /\ \E target \in DeletionTargets(p.args) :
                            \/ target \in {Chars("/"), Chars("~"), Chars("/home"),
                                           Chars("/etc"), Chars("/usr"),
                                           Chars("/var"), Chars("/root")}
                            \/ (IsAbsolute(target) /\ ~UnderTmp(target)))

\* C9: the timeout handed to the subprocess is the lesser of the requested
\* timeout and max_timeout: never above max_timeout, and the requested one
\* unchanged when that is at or below max_timeout.
C9_TimeoutClamped ==
    (Returned /\ spawned # None) =>
        /\ spawned[1].timeout <= policy.max_timeout
        /\ call[1].timeout <= policy.max_timeout =>
               spawned[1].timeout = call[1].timeout
        /\ call[1].timeout > policy.max_timeout =>
               spawned[1].timeout = policy.max_timeout

\* timeout=10000 with max_timeout=300 runs the subprocess with 300.
C9_Witness ==
    /\ Returned
    /\ spawned # None
    /\ call[1].timeout = 10000
    /\ policy.max_timeout = 300
    /\ spawned[1].timeout = 300

\* The subprocess of the call exited with code 0 and wrote nothing to stderr.
CleanExit ==
    /\ spawned # None
    /\ spawned[1].exit # None
    /\ spawned[1].exit[1].returncode = 0
    /\ spawned[1].exit[1].stderr = <<>>

\* C10 as stated: in every result success holds exactly when exit_code is 0,
\* and a subprocess that exits with code 0 and writes nothing to stderr
\* yields success=true, exit_code=0, stderr="".
C10_Original ==
    (Returned /\ ret # None) =>
        /\ ret[1].success <=> ret[1].exit_code = 0
        /\ CleanExit =>
               (ret[1].success /\ ret[1].exit_code = 0 /\ ret[1].stderr = <<>>)

\* C10 amended: in every result success holds exactly when exit_code is 0; a
\* subprocess that exits with code 0 and writes nothing to stderr yields
\* success=true and exit_code=0, with stderr="" when its stdout is no longer
\* than max_output_size and with stderr holding the notice of the truncated
\* stdout when it is longer.
C10_Amended ==
    (Returned /\ ret # None) =>
        /\ ret[1].success <=> ret[1].exit_code = 0
        /\ CleanExit =>
               /\ ret[1].success
               /\ ret[1].exit_code = 0
               /\ Len(spawned[1].exit[1].stdout) <= policy.max_output_size =>
                      ret[1].stderr = <<>>
               /\ Len(spawned[1].exit[1].stdout) > policy.max_output_size =>
                      ret[1].stderr = <<"\n">> \o Chars("[Output truncated - ")
                                      \o IntStr(Len(spawned[1].exit[1].stdout))
                                      \o Chars(" bytes total]")

\* A subprocess that exits with 0, wrote to stdout within the cap and nothing
\* to stderr.
C10_Witness ==
    /\ Returned
    /\ ret # None
    /\ CleanExit
    /\ spawned[1].exit[1].stdout # <<>>
    /\ Len(spawned[1].exit[1].stdout) <= policy.max_output_size
    /\ ret[1].success
    /\ ret[1].exit_code = 0
    /\ ret[1].stderr = <<>>

(***************************************************************************)
(* The result of a subprocess that was started.                            *)
(***************************************************************************)
\* The subprocess of the call was started and ran into the timeout.
TimedOut == spawned # None /\ spawned[1].outcome = "timeout"

\* The subprocess of the call was started and its shell exited in time.
Exited == spawned # None /\ spawned[1].outcome = "exit"

\* C11: when the subprocess does not finish within the effective timeout,
\* the smaller of the requested timeout and max_timeout, execute returns
\* success=false, exit_code=-1, an empty stdout, a stderr that says the
\* command timed out after that many seconds, and duration_ms equal to the
\* effective timeout times 1000.
C11_TimeoutResult ==
    (Returned /\ TimedOut) =>
        LET effective == IF call[1].timeout <= policy.max_timeout
                         THEN call[1].timeout ELSE policy.max_timeout
        IN  /\ raised = None
            /\ ret = Some([success |-> FALSE, exit_code |-> -1,
                           stdout |-> <<>>,
                           stderr |-> Chars("Command timed out after ")
                                      \o IntStr(effective) \o Chars("s"),
                           duration_ms |-> effective * 1000])

\* A request for 10000 seconds under max_timeout=300 that timed out: the
\* result cites 300 seconds and lasts 300000 ms.
C11_Witness ==
    /\ Returned
    /\ TimedOut
    /\ call[1].timeout = 10000
    /\ policy.max_timeout = 300
    /\ ret # None
    /\ ret[1].stderr = Chars("Command timed out after 300s")
    /\ ret[1].duration_ms = 300000

\* C12: when the shell exits in time, the returned stdout is the captured
\* stdout cut to max_output_size, the returned stderr is the captured stderr
\* cut to max_output_size followed by a notice for every stream that was
\* longer than max_output_size, the notice naming the stream's full length;
\* streams within the cap come back as they were captured.
C12_Truncation ==
    (Returned /\ Exited) =>
        LET out == spawned[1].exit[1].stdout
            err == spawned[1].exit[1].stderr
            cap == policy.max_output_size
            kept(t) == IF Len(t) <= cap THEN t ELSE SubSeq(t, 1, cap)
            outNotice == IF Len(out) > cap
                         THEN <<"\n">> \o Chars("[Output truncated - ")
                              \o IntStr(Len(out)) \o Chars(" bytes total]")
                         ELSE <<>>
            errNotice == IF Len(err) > cap
                         THEN <<"\n">> \o Chars("[Stderr truncated - ")
                              \o IntStr(Len(err)) \o Chars(" bytes total]")
                         ELSE <<>>
        IN  /\ ret # None
            /\ Len(ret[1].stdout) <= cap
            /\ ret[1].stdout = kept(out)
            /\ ret[1].stderr = kept(err) \o outNotice \o errNotice
            /\ (Len(out) <= cap /\ Len(err) <= cap) =>
                   (ret[1].stdout = out /\ ret[1].stderr = err)

\* Both streams were longer than the cap of 1: each comes back cut to one
\* character and stderr carries both notices.
C12_Witness ==
    /\ Returned
    /\ Exited
    /\ policy.max_output_size = 1
    /\ Len(spawned[1].exit[1].stdout) = 2
    /\ Len(spawned[1].exit[1].stderr) = 2
    /\ ret # None
    /\ ret[1].stdout = <<"x">>
    /\ ret[1].stderr = <<"x">> \o <<"\n">>
                       \o Chars("[Output truncated - 2 bytes total]")
                       \o <<"\n">> \o Chars("[Stderr truncated - 2 bytes total]")

(***************************************************************************)
(* The directory check.                                                    *)
(***************************************************************************)
\* Path a is path b or lies below it, both as sequences of names.
Under(a, b) == Len(b) <= Len(a) /\ \A i \in 1..Len(b) : a[i] = b[i]

\* The request has a binary and passes the blocked-pattern and allow-list
\* checks, so that the directory check decides next.
ReachesDirectoryCheck ==
    LET p == Parsed
    IN  /\ p.binary # <<>>
        /\ CheckBlockedPatterns(policy, call[1].command) = None
        /\ CheckAllowedCommand(policy, p.binary) = None

\* C13: with a non-empty allowed_directories and a non-empty cwd that
\* resolves, as every allowed entry does, the directory check passes exactly
\* when the resolved cwd is, or lies below, the resolved form of some allowed
\* entry; otherwise the request is rejected with the "not in allowed
\* directories" message that names the cwd as given.
C13_DirectoryCheck ==
    (Returned /\ policy.allowed_directories # <<>> /\ Truthy(call[1].cwd)) =>
        LET g == call[1].getcwdOk
            dirs == policy.allowed_directories
            resolved == Resolve(call[1].cwd[1], g)
            inside == \E i \in 1..Len(dirs) :
                          Under(resolved.parts, Resolve(dirs[i], g).parts)
            message == Chars("Blocked: directory '") \o call[1].cwd[1]
                       \o Chars("' is not in allowed directories")
            check == ValidateDirectory(policy, call[1].cwd, g)
        IN  (resolved.ok /\ \A i \in 1..Len(dirs) : Resolve(dirs[i], g).ok) =>
                /\ check = None <=> inside
                /\ ~inside => check = Some(message)
                /\ ReachesDirectoryCheck =>
                       /\ ~inside => (Rejected /\ ret[1].stderr = message)
                       /\ inside => (ret # None /\ ret[1].stderr # message)
                       /\ (inside /\ CheckOutcomes[4] = None) => spawned # None

\* cwd "/work/../etc" under allowed_directories = ["/work"]: the text starts
\* with the allowed directory but the path resolves to /etc, and the request
\* is rejected.
C13_Witness ==
    /\ Returned
    /\ policy.allowed_directories = <<Chars("/work")>>
    /\ call[1].cwd = Some(Chars("/work/../etc"))
    /\ ReachesDirectoryCheck
    /\ Rejected
    /\ ret[1].stderr =
           Chars("Blocked: directory '/work/../etc' is not in allowed directories")

\* C14: with a non-empty allowed_directories, a request that reaches the
\* directory check with a cwd that cannot be resolved, because resolving it
\* fails or because it names a directory that does not exist, is rejected
\* before anything is spawned with a reason that starts "Invalid directory",
\* not with the "not in allowed directories" reason.
C14_InvalidDirectory ==
    (Returned /\ policy.allowed_directories # <<>> /\ Truthy(call[1].cwd)
        /\ ReachesDirectoryCheck) =>
        LET resolved == Resolve(call[1].cwd[1], call[1].getcwdOk)
        IN  (~resolved.ok \/ ~call[1].cwdExists) =>
                /\ Rejected
                /\ StartsWith(ret[1].stderr, Chars("Invalid directory"))

(***************************************************************************)
(* The administrative operations.                                          *)
(***************************************************************************)
\* C15: add_allowed_command, remove_allowed_command and add_blocked_pattern
\* are idempotent: a step of one of them leaves a policy that the same
\* operation with the same argument does not change any more; adding what
\* is present and removing what is absent change nothing.
C15_Idempotent ==
    [][(pc = "idle" /\ pc' = "idle") =>
          /\ \A c \in AllowInputs :
                 /\ policy' = AddAllowedCommand(policy, c) =>
                        AddAllowedCommand(policy', c) = policy'
                 /\ InList(c, policy.allowed_commands) =>
                        AddAllowedCommand(policy, c) = policy
          /\ \A c \in RemoveInputs :
                 /\ policy' = RemoveAllowedCommand(policy, c) =>
                        RemoveAllowedCommand(policy', c) = policy'
                 /\ ~InList(c, policy.allowed_commands) =>
                        RemoveAllowedCommand(policy, c) = policy
          /\ \A b \in BlockInputs :
                 /\ policy' = AddBlockedPattern(policy, b) =>
                        AddBlockedPattern(policy', b) = policy'
                 /\ InList(b, policy.blocked_patterns) =>
                        AddBlockedPattern(policy, b) = policy]_vars

\* C16: for a gate with require_allowlist true, a step of
\* add_allowed_command(name) leaves name in allowed_commands, whatever the
\* list held before, and under the policy it leaves no request whose parsed
\* binary has the basename name is rejected by the allow-list check.
C16_AddThenAllowed ==
    [][\A name \in AllowInputs :
          (pc = "idle" /\ pc' = "idle" /\ policy'.require_allowlist
              /\ policy' = AddAllowedCommand(policy, name)) =>
              /\ InList(name, policy'.allowed_commands)
              /\ \A command \in Commands :
                     LET binary == ParseCommand(command).binary
                         reason == Chars("Blocked: '") \o name
                                   \o Chars("' is not in allowed commands")
                     IN  PathName(binary) = name =>
                             /\ CheckAllowedCommand(policy', binary) = None
                             /\ \A cwd \in CwdInputs :
                                    IsCommandSafe(policy', command, cwd, TRUE).error
                                        # reason
      ]_vars

\* "foo --bar" was started by a gate made with the default lists, which have
\* no "foo": add_allowed_command("foo") came before.
C16_Witness ==
    /\ Returned
    /\ policy.require_allowlist
    /\ policy.max_output_size = DefaultPolicy.max_output_size
    /\ ~InList(Chars("foo"), DEFAULT_ALLOWED_COMMANDS)
    /\ InList(Chars("foo"), policy.allowed_commands)
    /\ call[1].command = Chars("foo --bar")
    /\ spawned # None
    /\ spawned[1].ran = <<Chars("foo")>>

(***************************************************************************)
(* The exit code and the processes of a call.                              *)
(***************************************************************************)
\* C17: exit_code=-1 is returned only for a request that was rejected, that
\* timed out or that failed to launch: a subprocess that was started and
\* ended within the timeout never gives a result with exit_code=-1.
C17_ExitCodeReserved ==
    (Returned /\ ret # None /\ ret[1].exit_code = -1) =>
        \/ Rejected
        \/ spawned # None /\ spawned[1].outcome \in {"timeout", "fault"}

\* C18: when execute returns, on whichever path, no process that the call
\* started is still running.
C18_NothingLeftRunning ==
    (Returned /\ spawned # None) => spawned[1].left = {}

(***************************************************************************)
(* Purity of the checks.                                                   *)
(***************************************************************************)
\* The verdict on the request of the call while the process's current
\* directory exists, and the verdict after it was removed.
VerdictsAgree ==
    IsCommandSafe(policy, call[1].command, call[1].cwd, TRUE)
        = IsCommandSafe(policy, call[1].command, call[1].cwd, FALSE)

\* C20 as stated: a step of execute leaves the policy as it was, and two
\* evaluations of the same policy, command and cwd give the same verdict and
\* the same rejection message, also when the evaluations are made in
\* different states of the process's environment.
C20_Original ==
    /\ [][(pc = "idle" /\ pc' = "returned") => policy' = policy]_vars
    /\ [](Returned => VerdictsAgree)

\* The directory check does not consult the process's current directory:
\* it is skipped, or the cwd and every allowed directory are absolute.
EnvironmentFree ==
    \/ ~Truthy(call[1].cwd)
    \/ policy.allowed_directories = <<>>
    \/ /\ IsAbsolute(call[1].cwd[1])
       /\ \A i \in 1..Len(policy.allowed_directories) :
              IsAbsolute(policy.allowed_directories[i])

\* C20 amended: a step of execute leaves the policy as it was; two
\* evaluations of the same policy, command and cwd give the same verdict and
\* the same rejection message when the directory check is skipped (no cwd,
\* an empty cwd or an empty allowed_directories) or when the cwd and the
\* allowed directories are absolute paths.  For a relative cwd the directory
\* check reads the process's current directory and the verdict depends on it.
C20_Amended ==
    /\ [][(pc = "idle" /\ pc' = "returned") => policy' = policy]_vars
    /\ []((Returned /\ EnvironmentFree) => VerdictsAgree)

\* A request with the absolute cwd "/etc" that the directory check of a gate
\* with allowed_directories turned away: the verdict is the same whatever
\* the state of the process's current directory.
C20_Witness ==
    /\ Returned
    /\ policy.allowed_directories # <<>>
    /\ call[1].cwd = Some(Chars("/etc"))
    /\ EnvironmentFree
    /\ Rejected
    /\ ret[1].stderr = DirBlockedMessage(Chars("/etc"))
    /\ IsCommandSafe(policy, call[1].command, call[1].cwd, FALSE).error
           = ret[1].stderr

(***************************************************************************)
(* The policy during a call, under SpecThreads.                            *)
(***************************************************************************)
\* Policy value p as a whole permits the request.
PermittedBy(p, command, cwd, getcwdOk) ==
    LET parsed == ParseCommand(command)
    IN  /\ parsed.binary # <<>>
        /\ \A i \in 1..Len(p.blocked_patterns) :
               ~MatchesIgnoringCase(p.blocked_patterns[i], command)
        /\ p.require_allowlist =>
               InList(PathName(parsed.binary), p.allowed_commands)
        /\ ValidateDirectory(p, cwd, getcwdOk) = None
        /\ PathName(parsed.binary) = Chars("rm") =>
               ValidateRmCommand(parsed.args) = None

\* C19 as stated: also with administrative calls of another thread between
\* the steps of an execute, every command that execute spawns was permitted
\* as a whole by one of the policy values in force during the call.
C19_Original ==
    (pc = "returned" /\ spawned # None) =>
        \E p \in call[1].seen :
            PermittedBy(p, call[1].command, call[1].cwd, call[1].getcwdOk)

\* C19 amended: when no administrative call changes the policy while an
\* execute is in flight, every command it spawns was permitted as a whole by
\* the policy of the call.  With such calls in between, each check passed
\* against the policy value in force when that check ran, the blocked
\* patterns first, then the allow-list, then the directories, and these
\* values can differ.
C19_Amended ==
    (pc = "returned" /\ spawned # None) =>
        LET command == call[1].command
            read == call[1].read
            parsed == ParseCommand(command)
        IN  /\ Len(read) = 4
            /\ \A i \in 1..4 : read[i] \in call[1].seen
            /\ \A i \in 1..Len(read[1].blocked_patterns) :
                   ~MatchesIgnoringCase(read[1].blocked_patterns[i], command)
            /\ read[2].require_allowlist =>
                   InList(PathName(parsed.binary), read[2].allowed_commands)
            /\ ValidateDirectory(read[3], call[1].cwd, call[1].getcwdOk) = None
            /\ spawned[1].timeout <= read[4].max_timeout
            /\ Cardinality(call[1].seen) = 1 =>
                   \A p \in call[1].seen :
                       PermittedBy(p, command, call[1].cwd, call[1].getcwdOk)

\* "foo --bar" was spawned although none of the three policy values of the
\* call permitted it: the blocked patterns were read before "foo" was added
\* to them, the allow-list after "foo" was added to it.
C19_Witness ==
    /\ pc = "returned"
    /\ spawned # None
    /\ call[1].command = Chars("foo --bar")
    /\ Cardinality(call[1].seen) = 3
    /\ ~InList(Chars("foo"), call[1].read[1].blocked_patterns)
    /\ InList(Chars("foo"), call[1].read[2].allowed_commands)
    /\ \A p \in call[1].seen :
           ~PermittedBy(p, call[1].command, call[1].cwd, call[1].getcwdOk)

(***************************************************************************)
(* Parsing, and the empty command.                                         *)
(***************************************************************************)
\* Every character of the text is white space for Python (str.isspace).
OnlyWhitespace(text) == \A i \in 1..Len(text) : text[i] \in StrWhitespace

\* Every character of the text is a space, a tab, a carriage return or a
\* line feed, the characters between shell words.
OnlyWordSeparators(text) ==
    \A i \in 1..Len(text) : text[i] \in {" ", "\t", "\r", "\n"}

\* What C21 says of the commands with words: a well-formed one gives its
\* first shell word and the list of its shell words, one with malformed
\* quoting the first token between white space and the list of such tokens.
ParsesToWords(command, parsed) ==
    LET r == ShlexSplit(command)
        w == StrSplit(command)
    IN  /\ (r.ok /\ r.parts # <<>>) =>
               (parsed.binary = r.parts[1] /\ parsed.args = r.parts)
        /\ ~r.ok =>
               (w # <<>> /\ parsed.binary = w[1] /\ parsed.args = w)

\* C21 as stated: _parse_command returns the first shell word and the list
\* of shell words of a well-formed command, the first token between white
\* space of a command with malformed quoting, and an empty binary with an
\* empty list for an empty command or one of white space only.
C21_Original ==
    Returned =>
        LET parsed == Parsed
        IN  /\ ParsesToWords(call[1].command, parsed)
            /\ OnlyWhitespace(call[1].command) =>
                   (parsed.binary = <<>> /\ parsed.args = <<>>)

\* C21 amended: as stated, with "whitespace-only" meaning only spaces, tabs,
\* carriage returns and line feeds.  Other white space, such as a form
\* feed, is a shell word: the binary of the command "\f" is "\f".
C21_Amended ==
    Returned =>
        LET parsed == Parsed
        IN  /\ ParsesToWords(call[1].command, parsed)
            /\ OnlyWordSeparators(call[1].command) =>
                   (parsed.binary = <<>> /\ parsed.args = <<>>)
            /\ call[1].command = <<"\f">> =>
                   (parsed.binary = <<"\f">> /\ parsed.args = <<<<"\f">>>>)

\* A command with an unclosed quote was parsed by the fallback and went on
\* to the checks with the binary "rm".
C21_Witness ==
    /\ Returned
    /\ call[1].command = Chars("rm -v -r 'a")
    /\ ~ShlexSplit(call[1].command).ok
    /\ Parsed.binary = Chars("rm")
    /\ Parsed.args = <<Chars("rm"), Chars("-v"), Chars("-r"), Chars("'a")>>
    /\ ret # None

\* C25 as stated: an empty command or one of white space only is rejected
\* with "Empty command", whatever the policy, and nothing is spawned.
C25_Original ==
    (Returned /\ OnlyWhitespace(call[1].command)) =>
        (Rejected /\ ret[1].stderr = Chars("Empty command"))

\* C25 amended: an empty command or one of spaces, tabs, carriage returns
\* and line feeds only is rejected with "Empty command" before any policy
\* check, whatever the policy, and nothing is spawned.  A command of other
\* white space, such as "\f", has a binary and goes through the checks.
C25_Amended ==
    Returned =>
        /\ OnlyWordSeparators(call[1].command) =>
               (Rejected /\ ret[1].stderr = Chars("Empty command"))
        /\ (call[1].command = <<"\f">> /\ ret # None) =>
               /\ ret[1].stderr # Chars("Empty command")
               /\ ~policy.require_allowlist => spawned # None

\* Two spaces under a policy without allow-list whose block-list has the
\* pattern of two spaces: the reason is "Empty command".
C25_Witness ==
    /\ Returned
    /\ call[1].command = <<" ", " ">>
    /\ ~policy.require_allowlist
    /\ InList(<<" ", " ">>, policy.blocked_patterns)
    /\ Rejected
    /\ ret[1].stderr = Chars("Empty command")

(***************************************************************************)
(* The directory of the subprocess, and the lists over time.               *)
(***************************************************************************)
\* C22: with a non-empty allowed_directories every subprocess runs in a
\* directory that is, or lies below, one of the allowed directories, also
\* when no cwd or an empty cwd was given.
C22_RunsInAllowedDirectory ==
    (Returned /\ spawned # None /\ policy.allowed_directories # <<>>) =>
        \E i \in 1..Len(policy.allowed_directories) :
            Under(spawned[1].cwd,
                  Resolve(policy.allowed_directories[i], call[1].getcwdOk).parts)

\* C23: after a step of remove_allowed_command(name) the name is not in
\* allowed_commands, whatever the list held before.
C23_RemovedIsGone ==
    [][\A name \in RemoveInputs :
          (pc = "idle" /\ pc' = "idle"
              /\ policy' = RemoveAllowedCommand(policy, name)) =>
              ~InList(name, policy'.allowed_commands)]_vars

\* C24: no step removes a pattern from blocked_patterns, and a command that
\* contains a pattern of blocked_patterns, compared case-insensitively, is
\* rejected without a subprocess.
C24_BlockListGrows ==
    /\ [][policy' # policy =>
              \A i \in 1..Len(policy.blocked_patterns) :
                  InList(policy.blocked_patterns[i], policy'.blocked_patterns)]_vars
    /\ []((Returned /\ MatchingPatterns # {}) => Rejected)

\* "ls -la | grep x" under a block-list that got "ls " added to it: the
\* command is rejected for that pattern.
C24_Witness ==
    /\ Returned
    /\ policy.blocked_patterns = <<Chars("ls ")>>
    /\ call[1].command = Chars("ls -la | grep x")
    /\ Rejected
    /\ ret[1].stderr = Chars("Blocked: command contains forbidden pattern 'ls '")

(***************************************************************************)
(* The feature development flow (src/src/feature_dev).  A Python value is  *)
(* None or Some(v); a state dictionary is a function from the keys it      *)
(* holds to such values, and a row of a table is a function from the       *)
(* table's column names to them.  db holds the three tables and the clock  *)
(* that datetime.now reads.                                                *)
(***************************************************************************)
MaxCalls == 2

\* The keys update_flow_state copies when the state holds a value for them.
OptionalKeys ==
    <<"build_cmd", "test_cmd", "ci_notes", "baseline", "findings",
      "current_story_id", "current_story_title", "pr_url", "pr_number",
      "review_status", "diff", "commit_title", "commit_message",
      "commit_footer", "changes", "tests">>

\* The keys update_flow_state copies whenever the state holds them.
BoolKeys == <<"verified", "tested">>

\* The columns of flow_execution.
FlowColumns ==
    {"id", "flow_id", "issue_id", "task", "repo", "branch", "current_phase",
     "created_at", "updated_at", "current_story_description",
     "current_story_acceptance_criteria"}
        \cup {OptionalKeys[i] : i \in 1..Len(OptionalKeys)}
        \cup {BoolKeys[i] : i \in 1..Len(BoolKeys)}

\* The columns declared without "| None": the table refuses NULL in them.
NotNullColumns ==
    {"flow_id", "issue_id", "task", "repo", "branch", "current_phase",
     "created_at", "updated_at", "verified", "tested"}

\* dict.get(key, default)
Get(state, key, default) ==
    IF key \in DOMAIN state THEN state[key] ELSE default

\* select(FlowExecution).where(flow_id == flow_id).first(): the position of
\* the row, 0 when there is none.
SelectFlow(d, flow_id) ==
    IF \E i \in 1..Len(d.flow_execution) :
           d.flow_execution[i]["flow_id"] = Some(flow_id)
    THEN CHOOSE i \in 1..Len(d.flow_execution) :
             /\ d.flow_execution[i]["flow_id"] = Some(flow_id)
             /\ \A j \in 1..(i - 1) :
                    d.flow_execution[j]["flow_id"] # Some(flow_id)
    ELSE 0

\* FlowExecution(flow_id=..., issue_id=..., task=..., repo=..., branch=...)
\* as the session inserts it: the other columns take their defaults.
FlowExecution(d, flow_id, state) ==
    [c \in FlowColumns |->
        CASE c = "id" -> Some(Len(d.flow_execution) + 1)
          [] c = "flow_id" -> Some(flow_id)
          [] c = "issue_id" -> Get(state, "issue_id", Some(0))
          [] c = "task" -> Get(state, "task", Some(""))
          [] c = "repo" -> Get(state, "repo", Some(""))
          [] c = "branch" -> Get(state, "branch", Some(""))
          [] c = "current_phase" -> Some("")
          [] c \in {"created_at", "updated_at"} -> Some(d.clock)
          [] c \in {"verified", "tested"} -> Some(FALSE)
          [] OTHER -> None]

\* session.add(flow) of a new row, at the next tick of the clock.
InsertFlow(d, flow_id, state) ==
    [d EXCEPT !.flow_execution = Append(@, FlowExecution(d, flow_id, state)),
              !.clock = @ + 1]

\* The commit refuses a row that holds NULL in a NOT NULL column.
Commits(row) == \A c \in NotNullColumns : row[c] # None

\* get_or_create_flow: the row of the flow, inserted when there is none.
GetOrCreateFlow(d, flow_id, state) ==
    IF SelectFlow(d, flow_id) # 0 THEN [db |-> d, raised |-> FALSE]
    ELSE IF Commits(FlowExecution(d, flow_id, state))
    THEN [db |-> InsertFlow(d, flow_id, state), raised |-> FALSE]
    ELSE [db |-> d, raised |-> TRUE]

SetColumnsWithNone(row, state, phase, now) ==
    [c \in FlowColumns |->
        IF c = "current_phase" THEN Some(phase)
        ELSE IF c = "updated_at" THEN Some(now)
        ELSE IF InList(c, OptionalKeys) /\ c \in DOMAIN state
        THEN state[c]
        ELSE IF InList(c, BoolKeys) /\ c \in DOMAIN state THEN state[c]
        ELSE row[c]]

\* The assignments of update_flow_state to the row: the phase, the time,
\* and the two setattr loops.
SetColumns(row, state, phase, now) ==
    [c \in FlowColumns |->
        IF c = "current_phase" THEN Some(phase)
        ELSE IF c = "updated_at" THEN Some(now)
        ELSE IF InList(c, OptionalKeys) /\ c \in DOMAIN state
                 /\ state[c] # None
        THEN state[c]
        ELSE IF InList(c, BoolKeys) /\ c \in DOMAIN state THEN state[c]
        ELSE row[c]]

\* update_flow_state: the row is created when it is missing, the columns
\* are set and the session commits; a commit that fails raises and leaves
\* the table as it was.
UpdateFlowState(d, flow_id, state, phase) ==
    LET found == SelectFlow(d, flow_id)
        d1 == IF found = 0 THEN InsertFlow(d, flow_id, state) ELSE d
        i == IF found = 0 THEN Len(d1.flow_execution) ELSE found
        row == SetColumns(d1.flow_execution[i], state, phase, d1.clock)
    IN  IF Commits(row)
        THEN [db |-> [d1 EXCEPT !.flow_execution[i] = row, !.clock = @ + 1],
              raised |-> FALSE]
        ELSE [db |-> d, raised |-> TRUE]

\* PhaseSnapshot(flow_db_id=..., phase=..., state_json=...) as the session
\* inserts it.
PhaseSnapshot(d, flow_db_id, phase, state) ==
    [id |-> Len(d.phase_snapshot) + 1, flow_db_id |-> flow_db_id,
     phase |-> phase, state_json |-> state, created_at |-> d.clock]

SaveStateSnapshotOnce(d, flow_id, phase, state) ==
    LET found == SelectFlow(d, flow_id)
    IN  IF found = 0
            \/ \E i \in 1..Len(d.phase_snapshot) :
                   d.phase_snapshot[i].phase = phase
        THEN d
        ELSE [d EXCEPT !.phase_snapshot =
                           Append(@, PhaseSnapshot(
                               d, d.flow_execution[found]["id"][1], phase,
                               state)),
                       !.clock = @ + 1]

\* save_state_snapshot: one more phase_snapshot row for the flow's row, none
\* when the flow has no row.
SaveStateSnapshot(d, flow_id, phase, state) ==
    LET found == SelectFlow(d, flow_id)
    IN  IF found = 0 THEN d
        ELSE [d EXCEPT !.phase_snapshot =
                           Append(@, PhaseSnapshot(
                               d, d.flow_execution[found]["id"][1], phase,
                               state)),
                       !.clock = @ + 1]

\* select(WebhookConfig).where(active.is_(True))
GetActiveWebhooks(d) ==
    SelectSeq(d.webhook_config, LAMBDA w : w.active = Some(TRUE))

\* WEBHOOK_TIMEOUT, the seconds httpx.post waits.
WEBHOOK_TIMEOUT == 10

\* response.is_success: a 2xx status.
IsSuccess(status_code) == status_code >= 200 /\ status_code < 300

\* What one pass of the loop of trigger_webhooks appends for a webhook that
\* is not skipped: httpx.post answers, times out or fails otherwise.
ResultEntry(webhook, delivery) ==
    CASE delivery.kind = "response" ->
             [webhook |-> webhook.name, status_code |-> delivery.status_code,
              success |-> IsSuccess(delivery.status_code)]
      [] delivery.kind = "timeout" ->
             [webhook |-> webhook.name, error |-> "timeout"]
      [] OTHER -> [webhook |-> webhook.name, error |-> delivery.text]

\* webhook.events if isinstance(webhook.events, list) else []
EventsOf(webhook) ==
    IF webhook.events.is_list THEN webhook.events.items ELSE <<>>

SubscribedWithoutWildcard(webhook, phase) ==
    InList(phase, EventsOf(webhook))

\* The webhook is not skipped: phase in events or "*" in events.
Subscribed(webhook, phase) ==
    InList(phase, EventsOf(webhook)) \/ InList("*", EventsOf(webhook))

\* The loop of trigger_webhooks from the i-th webhook on: acc holds the
\* results so far and the requests httpx.post was called with.
RECURSIVE TriggerLoop(_, _, _, _, _, _)
TriggerLoop(webhooks, i, phase, state, deliver, acc) ==
    IF i > Len(webhooks) THEN acc
    ELSE LET webhook == webhooks[i]
             delivery == deliver[webhook.url]
             sent == [results |-> Append(acc.results,
                                         ResultEntry(webhook, delivery)),
                      posted |-> Append(acc.posted,
                          [url |-> webhook.url,
                           json |-> [phase |-> phase, state |-> state,
                                     webhook_name |-> webhook.name],
                           timeout |-> WEBHOOK_TIMEOUT])]
         IN  IF ~Subscribed(webhook, phase)
             THEN TriggerLoop(webhooks, i + 1, phase, state, deliver, acc)
             ELSE TriggerLoop(webhooks, i + 1, phase, state, deliver, sent)

\* trigger_webhooks(phase, state): the returned results and the requests
\* made, under the deliveries the network gives each url.  Both handlers
\* catch what httpx.post raises, so nothing leaves the loop.
TriggerWebhooks(d, phase, state, deliver) ==
    LET sent == TriggerLoop(GetActiveWebhooks(d), 1, phase, state, deliver,
                            [results |-> <<>>, posted |-> <<>>])
    IN  [phase |-> phase, state |-> state, deliver |-> deliver,
         results |-> sent.results, posted |-> sent.posted, raised |-> FALSE]

\* _persist_and_notify(phase) with state_dict = self.state.model_dump(): the
\* four calls in order, each in a session of its own; a call that raises
\* ends it.
PersistAndNotify(d, flow_id, state_dict, phase, deliver) ==
    LET created == GetOrCreateFlow(d, flow_id, state_dict)
        updated == UpdateFlowState(created.db, flow_id, state_dict, phase)
        saved == SaveStateSnapshot(updated.db, flow_id, phase, state_dict)
    IN  IF created.raised THEN [db |-> created.db, http |-> None, raised |-> TRUE]
        ELSE IF updated.raised
        THEN [db |-> updated.db, http |-> None, raised |-> TRUE]
        ELSE [db |-> saved,
              http |-> Some(TriggerWebhooks(saved, phase, state_dict, deliver)),
              raised |-> FALSE]

(***************************************************************************)
(* The database functions called one after the other.  One flow instance   *)
(* calls _persist_and_notify with the state its methods left; the calls of *)
(* another flow, which has a flow_id of its own, arrive one database        *)
(* function at a time, with dictionaries that hold any of the keys.         *)
(***************************************************************************)
\* str(uuid.uuid4())[:8] of the flow instance and of the other flow.
FlowId == "3f2a9c1e"

OtherFlowId == "b7704d52"

\* The fields of FeatureDevState.
StateFields ==
    {"issue_id", "task", "repo", "branch", "stories", "current_story",
     "completed_stories"}
        \cup {OptionalKeys[i] : i \in 1..Len(OptionalKeys)}
        \cup {BoolKeys[i] : i \in 1..Len(BoolKeys)}

\* FeatureDevState(issue_id=...): every other field at its default.
FeatureDevState(issue_id) ==
    [k \in StateFields |->
        CASE k = "issue_id" -> Some(issue_id)
          [] k \in {"task", "repo", "branch"} -> Some("")
          [] k \in {"stories", "changes", "tests", "completed_stories"} ->
                 Some(<<>>)
          [] k \in {"verified", "tested"} -> Some(FALSE)
          [] OTHER -> None]

\* The state as setup leaves it, and as verify leaves it later on.
StateAfterSetup ==
    [FeatureDevState(1) EXCEPT
        !["task"] = Some("hello world page"),
        !["repo"] = Some("/home/xeroc/projects/chaoscraft/demo"),
        !["branch"] = Some("1-feature-branch"),
        !["build_cmd"] = Some("make"),
        !["test_cmd"] = Some("make test"),
        !["baseline"] = Some("green"),
        !["findings"] = Some("plain html")]

StateAfterVerify ==
    [StateAfterSetup EXCEPT
        !["changes"] = Some(<<"index.html">>),
        !["tested"] = Some(TRUE),
        !["verified"] = Some(TRUE),
        !["commit_title"] = Some("feat: hello world"),
        !["commit_message"] = Some("adds the page"),
        !["commit_footer"] = Some("Refs: 1")]

DumpInputs == {StateAfterSetup, StateAfterVerify}

\* Dictionaries the database functions are called with.
DictInputs ==
    {[commit_title |-> Some("feat: page"), verified |-> Some(TRUE),
      pr_number |-> Some(7)],
     [commit_title |-> None, verified |-> Some(FALSE), tested |-> Some(TRUE),
      pr_number |-> None, diff |-> Some("+hello")],
     [commit_title |-> Some("fix: typo"), verified |-> None],
     [issue_id |-> Some(2), task |-> Some("other task"),
      current_story_description |-> Some("as a user")]}

PhaseInputs == {"setup", "verify"}

\* The rows of webhook_config.
WebhookRows ==
    <<[name |-> "all", url |-> "https://hooks/all",
       events |-> [is_list |-> TRUE, items |-> <<"*">>], active |-> Some(TRUE)],
      [name |-> "off", url |-> "https://hooks/off",
       events |-> [is_list |-> TRUE, items |-> <<"*">>],
       active |-> Some(FALSE)],
      [name |-> "verify", url |-> "https://hooks/verify",
       events |-> [is_list |-> TRUE, items |-> <<"plan_task", "verify">>],
       active |-> Some(TRUE)],
      [name |-> "keyed", url |-> "https://hooks/keyed",
       events |-> [is_list |-> FALSE, items |-> <<"setup", "verify">>],
       active |-> Some(TRUE)],
      [name |-> "last", url |-> "https://hooks/last",
       events |-> [is_list |-> TRUE, items |-> <<"verify", "setup">>],
       active |-> Some(TRUE)]>>

Urls == {WebhookRows[i].url : i \in 1..Len(WebhookRows)}

\* What httpx.post does with a request: a response, a timeout, or another
\* exception.
Answer(status_code) == [kind |-> "response", status_code |-> status_code]

TimesOut == [kind |-> "timeout"]

Fails == [kind |-> "error", text |-> "[Errno 111] Connection refused"]

DeliveryInputs ==
    {[u \in Urls |-> Answer(200)],
     [u \in Urls |-> IF u = "https://hooks/all" THEN Answer(500)
                     ELSE Answer(200)],
     [u \in Urls |-> IF u = "https://hooks/all" THEN TimesOut
                     ELSE Answer(204)],
     [u \in Urls |-> IF u = "https://hooks/verify" THEN Fails
                     ELSE Answer(200)],
     [u \in Urls |-> IF u = "https://hooks/last" THEN Answer(200) ELSE Fails]}

\* The flow instance before its first method runs.
NewFlow == [flow_id |-> FlowId, state |-> FeatureDevState(0)]

PersistenceInit ==
    /\ db = [flow_execution |-> <<>>, phase_snapshot |-> <<>>,
             webhook_config |-> WebhookRows, clock |-> 1]
    /\ flow = NewFlow
    /\ calls = [n |-> 0, log |-> <<>>, last |-> None]
    /\ http = None
    /\ policy = DefaultPolicy
    /\ pc = "idle"
    /\ call = None
    /\ ret = None
    /\ raised = None
    /\ spawned = None

\* What calls keeps of a call of a database function.
Called(op, flow_id, state, phase, outcome) ==
    [calls EXCEPT !.n = @ + 1,
                  !.last = Some([op |-> op, flow_id |-> flow_id,
                                 state |-> state, phase |-> phase,
                                 raised |-> outcome.raised])]

\* A method of the flow left state in self.state and calls
\* _persist_and_notify(phase).
persist_and_notify(state, phase, deliver) ==
    /\ calls.n < MaxCalls
    /\ LET done == PersistAndNotify(db, flow.flow_id, state, phase, deliver)
       IN  /\ flow' = [flow EXCEPT !.state = state]
           /\ db' = done.db
           /\ http' = IF done.http = None THEN http ELSE done.http
           /\ calls' = [calls EXCEPT
                           !.n = @ + 1,
                           !.log = Append(@, [phase |-> phase,
                                              state |-> state,
                                              raised |-> done.raised])]
    /\ UNCHANGED gatevars

get_or_create_flow(flow_id, state) ==
    /\ calls.n < MaxCalls
    /\ LET done == GetOrCreateFlow(db, flow_id, state)
       IN  /\ db' = done.db
           /\ calls' = Called("get_or_create_flow", flow_id, state, "", done)
    /\ UNCHANGED <<flow, http>>
    /\ UNCHANGED gatevars

update_flow_state(flow_id, state, phase) ==
    /\ calls.n < MaxCalls
    /\ LET done == UpdateFlowState(db, flow_id, state, phase)
       IN  /\ db' = done.db
           /\ calls' = Called("update_flow_state", flow_id, state, phase, done)
    /\ UNCHANGED <<flow, http>>
    /\ UNCHANGED gatevars

save_state_snapshot(flow_id, phase, state) ==
    /\ calls.n < MaxCalls
    /\ db' = SaveStateSnapshot(db, flow_id, phase, state)
    /\ calls' = Called("save_state_snapshot", flow_id, state, phase,
                       [raised |-> FALSE])
    /\ UNCHANGED <<flow, http>>
    /\ UNCHANGED gatevars

trigger_webhooks(phase, state, deliver) ==
    /\ calls.n < MaxCalls
    /\ http' = Some(TriggerWebhooks(db, phase, state, deliver))
    /\ calls' = Called("trigger_webhooks", "", state, phase,
                       [raised |-> FALSE])
    /\ UNCHANGED <<db, flow>>
    /\ UNCHANGED gatevars

PersistenceNext ==
    \/ \E state \in DumpInputs, phase \in PhaseInputs,
          deliver \in DeliveryInputs :
           persist_and_notify(state, phase, deliver)
    \/ \E state \in DictInputs : get_or_create_flow(OtherFlowId, state)
    \/ \E state \in DictInputs, phase \in PhaseInputs :
           update_flow_state(OtherFlowId, state, phase)
    \/ \E state \in DictInputs, phase \in PhaseInputs :
           save_state_snapshot(OtherFlowId, phase, state)
    \/ \E state \in DictInputs, phase \in PhaseInputs,
          deliver \in DeliveryInputs :
           trigger_webhooks(phase, state, deliver)

SpecPersistence == PersistenceInit /\ [][PersistenceNext]_vars

(***************************************************************************)
(* FeatureDevFlow.  A method starts once the method it listens to has       *)
(* returned; the listeners of one method are started together and run      *)
(* side by side, so their steps interleave.  step is where each method      *)
(* stands, read is what implement_story and commit_changes read from the    *)
(* state.  FeatureDevState declares no worktree_path: lenient tells whether *)
(* the state object takes the assignment of create_branch or refuses it,    *)
(* and reading the attribute before it was assigned raises in both cases.   *)
(***************************************************************************)
Methods ==
    {"setup", "plan_task", "create_branch", "implement_story",
     "test_integration", "verify", "commit_changes", "create_pr", "review"}

\* @start() and @listen(...): the method each method waits for.
Trigger ==
    [m \in Methods |->
        CASE m = "setup" -> "start"
          [] m = "plan_task" -> "setup"
          [] m = "create_branch" -> "plan_task"
          [] m = "implement_story" -> "setup"
          [] m = "test_integration" -> "implement_story"
          [] m = "verify" -> "test_integration"
          [] m = "commit_changes" -> "test_integration"
          [] m = "create_pr" -> "commit_changes"
          [] m = "review" -> "commit_changes"]

\* The story PlanCrew returns.
Story1 ==
    [id |-> 1, title |-> "hello page", description |-> "a page that greets",
     acceptance_criteria |-> <<"says hello world">>]

FlowInit ==
    /\ db = [flow_execution |-> <<>>, phase_snapshot |-> <<>>,
             webhook_config |-> WebhookRows, clock |-> 1]
    /\ \E lenient \in BOOLEAN :
          flow = [flow_id |-> FlowId, state |-> FeatureDevState(0),
                  lenient |-> lenient, worktree_path |-> None,
                  step |-> [m \in Methods |-> "waiting"],
                  read |-> [stories |-> None, commit |-> None]]
    /\ calls = [n |-> 0, log |-> <<>>, last |-> None]
    /\ http = None
    /\ policy = DefaultPolicy
    /\ pc = "idle"
    /\ call = None
    /\ ret = None
    /\ raised = None
    /\ spawned = None

\* The framework starts method m.
Ready(m) ==
    /\ flow.step[m] = "waiting"
    /\ IF Trigger[m] = "start" THEN TRUE
       ELSE flow.step[Trigger[m]] = "done"
    /\ \A other \in Methods : flow.step[other] # "failed"

\* self.state.worktree_path or self.state.repo raises when the attribute
\* was never assigned.
RepoPathRaises == flow.worktree_path = None

\* Method m raises: the methods that listen to it are not started.
Raises(m) ==
    /\ flow' = [flow EXCEPT !.step[m] = "failed"]
    /\ UNCHANGED <<db, calls, http>>

\* Method m leaves state in self.state, calls _persist_and_notify(phase) and
\* returns; next is the flow with what else the method changed.
Returns(m, next, state, phase) ==
    \E deliver \in DeliveryInputs :
        LET done == PersistAndNotify(db, flow.flow_id, state, phase, deliver)
        IN  /\ flow' = [next EXCEPT !.state = state,
                                    !.step[m] = IF done.raised THEN "failed"
                                                ELSE "done"]
            /\ db' = done.db
            /\ http' = IF done.http = None THEN http ELSE done.http
            /\ calls' = [calls EXCEPT
                            !.n = @ + 1,
                            !.log = Append(@, [phase |-> phase,
                                               state |-> state,
                                               raised |-> done.raised])]

\* The framework starts a method; what the method does before its crew or
\* git work is done with it.  test_integration, verify and commit_changes
\* read worktree_path first; create_pr unpacks the three values
\* get_github_repo_from_local returns into two names and raises;
\* implement_story reads the stories it will implement.
Start(m) ==
    /\ Ready(m)
    /\ IF m \in {"test_integration", "verify", "commit_changes"}
           /\ RepoPathRaises
       THEN Raises(m)
       ELSE IF m = "create_pr"
       THEN Raises(m)
       ELSE /\ flow' = [flow EXCEPT
                           !.step[m] = "running",
                           !.read.stories =
                               IF m = "implement_story"
                               THEN Some(IF flow.state["stories"] = None
                                         THEN <<>>
                                         ELSE flow.state["stories"][1])
                               ELSE @]
            /\ UNCHANGED <<db, calls, http>>
    /\ UNCHANGED gatevars

setup ==
    /\ flow.step["setup"] = "running"
    /\ Returns("setup", flow, StateAfterSetup, "setup")
    /\ UNCHANGED gatevars

plan_task ==
    /\ flow.step["plan_task"] = "running"
    /\ Returns("plan_task", flow,
               [flow.state EXCEPT !["stories"] = Some(<<Story1>>)],
               "plan_task")
    /\ UNCHANGED gatevars

create_branch ==
    /\ flow.step["create_branch"] = "running"
    /\ IF flow.lenient
       THEN Returns("create_branch",
                    [flow EXCEPT !.worktree_path =
                        Some("/home/xeroc/projects/chaoscraft/demo/.worktrees/1-feature-branch")],
                    flow.state, "create_branch")
       ELSE Raises("create_branch")
    /\ UNCHANGED gatevars

implement_story ==
    /\ flow.step["implement_story"] = "running"
    /\ LET stories == flow.read.stories[1]
       IN  IF stories # <<>> /\ RepoPathRaises
           THEN Raises("implement_story")
           ELSE Returns("implement_story", flow,
                        [flow.state EXCEPT
                            !["completed_stories"] = flow.state["stories"],
                            !["changes"] =
                                Some([i \in 1..Len(stories) |-> "index.html"]),
                            !["tests"] =
                                Some([i \in 1..Len(stories) |-> "test_index"])],
                        "implement_story")
    /\ UNCHANGED gatevars

test_integration ==
    /\ flow.step["test_integration"] = "running"
    /\ \E tested \in BOOLEAN :
          Returns("test_integration", flow,
                  [flow.state EXCEPT !["tested"] = Some(tested)],
                  "test_integration")
    /\ UNCHANGED gatevars

verify ==
    /\ flow.step["verify"] = "running"
    /\ Returns("verify", flow,
               [flow.state EXCEPT
                   !["verified"] = Some(TRUE),
                   !["commit_title"] = Some("feat: hello world"),
                   !["commit_message"] = Some("adds the page"),
                   !["commit_footer"] = Some("Refs: 1")],
               "verify")
    /\ UNCHANGED gatevars

commit_changes ==
    /\ flow.step["commit_changes"] = "running"
    /\ \E diff \in {"", "+hello world"} :
          Returns("commit_changes",
                  [flow EXCEPT !.read.commit =
                      Some([title |-> flow.state["commit_title"],
                            message |-> flow.state["commit_message"],
                            footer |-> flow.state["commit_footer"]])],
                  [flow.state EXCEPT !["diff"] = Some(diff)],
                  "commit_changes")
    /\ UNCHANGED gatevars

review ==
    /\ flow.step["review"] = "running"
    /\ IF flow.state["diff"] \in {None, Some("")}
       THEN /\ flow' = [flow EXCEPT !.step["review"] = "done"]
            /\ UNCHANGED <<db, calls, http>>
       ELSE Returns("review", flow,
                    [flow.state EXCEPT !["review_status"] = Some("approved")],
                    "review")
    /\ UNCHANGED gatevars

FlowNext ==
    \/ \E m \in Methods : Start(m)
    \/ setup
    \/ plan_task
    \/ create_branch
    \/ implement_story
    \/ test_integration
    \/ verify
    \/ commit_changes
    \/ review

SpecFlow == FlowInit /\ [][FlowNext]_vars

(***************************************************************************)
(* Properties of FeatureDevFlow.                                           *)
(***************************************************************************)
\* C26: the step in which implement_story reads state.stories is taken
\* after plan_task has stored the stories and returned.
C26_StoriesReadAfterPlan ==
    [][(flow.read.stories = None /\ flow'.read.stories # None) =>
          flow.step["plan_task"] = "done"]_vars

RowsOf(flow_id) ==
    {i \in 1..Len(db.flow_execution) :
        db.flow_execution[i]["flow_id"] = Some(flow_id)}

\* The phase_snapshot rows that refer to the flow_execution row with this id,
\* in the order they were inserted.
SnapshotsOf(id) ==
    SelectSeq(db.phase_snapshot, LAMBDA s : s.flow_db_id = id)

\* C28: once the flow instance has called _persist_and_notify, one
\* flow_execution row carries its flow_id, the row's current_phase is the
\* phase of the last call, and the phase_snapshot rows that refer to the row
\* are one per call, in the order of the calls, each with the phase and the
\* state of its call.
C28_OneRowOneSnapshotPerCall ==
    (db # None /\ calls.log # <<>>) =>
        /\ Cardinality(RowsOf(flow.flow_id)) = 1
        /\ LET row == db.flow_execution[CHOOSE i \in RowsOf(flow.flow_id) : TRUE]
               snapshots == SnapshotsOf(row["id"][1])
           IN  /\ row["current_phase"] = Some(calls.log[Len(calls.log)].phase)
               /\ Len(snapshots) = Len(calls.log)
               /\ \A k \in 1..Len(snapshots) :
                      /\ snapshots[k].phase = calls.log[k].phase
                      /\ snapshots[k].state_json = calls.log[k].state

\* Two calls for the same phase, the state of the second differing from the
\* first: two snapshots and one row.
C28_Witness ==
    /\ db # None
    /\ Len(calls.log) = 2
    /\ calls.log[1].phase = "verify"
    /\ calls.log[2].phase = "verify"
    /\ calls.log[1].state = StateAfterSetup
    /\ calls.log[2].state = StateAfterVerify
    /\ Len(db.phase_snapshot) = 2
    /\ Len(db.flow_execution) = 1


\* A step in which update_flow_state(flow_id, state, phase) was called.
UpdateCalled ==
    /\ db # None
    /\ calls'.n = calls.n + 1
    /\ calls'.log = calls.log
    /\ calls'.last # None
    /\ calls'.last[1].op = "update_flow_state"

\* The row the call worked on, as it was before the call's assignments: the
\* stored row, or the row the call inserted when there was none.
RowBefore ==
    LET c == calls'.last[1]
    IN  IF SelectFlow(db, c.flow_id) = 0
        THEN FlowExecution(db, c.flow_id, c.state)
        ELSE db.flow_execution[SelectFlow(db, c.flow_id)]

\* The stored row after the call.
RowAfter ==
    db'.flow_execution[SelectFlow(db', calls'.last[1].flow_id)]

\* What the claim says of the columns after a call with state on a row.
ColumnsAsClaimed(before, after, state) ==
    /\ \A i \in 1..Len(OptionalKeys) :
          LET key == OptionalKeys[i]
          IN  IF key \in DOMAIN state /\ state[key] # None
              THEN after[key] = state[key]
              ELSE after[key] = before[key]
    /\ \A i \in 1..Len(BoolKeys) :
          LET key == BoolKeys[i]
          IN  IF key \in DOMAIN state THEN after[key] = state[key]
              ELSE after[key] = before[key]
    /\ \A c \in FlowColumns :
          (/\ ~InList(c, OptionalKeys)
           /\ ~InList(c, BoolKeys)
           /\ c \notin {"current_phase", "updated_at"}) =>
              after[c] = before[c]

\* No column that held a value holds None afterwards.
NoneNeverStored(before, after) ==
    \A c \in FlowColumns : before[c] # None => after[c] # None

\* The state holds None for verified or tested.
NoneForBool(state) ==
    \E i \in 1..Len(BoolKeys) :
        BoolKeys[i] \in DOMAIN state /\ state[BoolKeys[i]] = None

\* C29 as claimed: every call of update_flow_state leaves the row with the
\* listed optional columns overwritten by the non-None values of the state
\* and otherwise unchanged, verified and tested overwritten whenever the
\* state holds them, the other columns but current_phase and updated_at
\* unchanged, and no stored value replaced by None.
C29_Original ==
    [][UpdateCalled =>
          /\ SelectFlow(db', calls'.last[1].flow_id) # 0
          /\ ColumnsAsClaimed(RowBefore, RowAfter, calls'.last[1].state)
          /\ NoneNeverStored(RowBefore, RowAfter)]_vars

\* C29, amended: the same for every call whose state does not hold None for
\* verified or tested; a call whose state holds None for one of them raises
\* and leaves the table as it was.
C29_Amended ==
    [][UpdateCalled =>
          IF NoneForBool(calls'.last[1].state)
          THEN /\ calls'.last[1].raised
               /\ db'.flow_execution = db.flow_execution
          ELSE /\ ~calls'.last[1].raised
               /\ ColumnsAsClaimed(RowBefore, RowAfter, calls'.last[1].state)
               /\ NoneNeverStored(RowBefore, RowAfter)]_vars

\* The row held commit_title and pr_number; a call with None for both and
\* False for verified left the two values, stored False and the new diff.
C29_Witness ==
    /\ db # None
    /\ calls.last # None
    /\ calls.last[1].op = "update_flow_state"
    /\ Get(calls.last[1].state, "commit_title", Some("")) = None
    /\ Get(calls.last[1].state, "verified", None) = Some(FALSE)
    /\ SelectFlow(db, OtherFlowId) # 0
    /\ LET row == db.flow_execution[SelectFlow(db, OtherFlowId)]
       IN  /\ row["commit_title"] = Some("feat: page")
           /\ row["pr_number"] = Some(7)
           /\ row["verified"] = Some(FALSE)
           /\ row["diff"] = Some("+hello")
           /\ row["current_phase"] = Some("verify")


\* The webhooks the claim has trigger_webhooks post to for a phase: the
\* active ones whose events list holds the phase or "*", in table order.  A
\* webhook whose events is not a list has no events list.
Attempted(phase) ==
    SelectSeq(db.webhook_config,
              LAMBDA w : /\ w.active = Some(TRUE)
                         /\ w.events.is_list
                         /\ \/ InList(phase, w.events.items)
                            \/ InList("*", w.events.items))

\* C30: trigger_webhooks posts to exactly the active webhooks whose events
\* list holds the phase or "*", whatever became of the deliveries before,
\* does not raise, and returns one entry per webhook it posted to, in their
\* order: the status for a response, the error for a timeout or an exception.
C30_PostsToSubscribedInOrder ==
    (http # None) =>
        LET sent == http[1]
            attempted == Attempted(sent.phase)
        IN  /\ ~sent.raised
            /\ Len(sent.posted) = Len(attempted)
            /\ Len(sent.results) = Len(attempted)
            /\ \A k \in 1..Len(attempted) :
                  /\ sent.posted[k].url = attempted[k].url
                  /\ sent.posted[k].json.phase = sent.phase
                  /\ sent.posted[k].json.state = sent.state
                  /\ sent.results[k].webhook = attempted[k].name
                  /\ LET delivery == sent.deliver[attempted[k].url]
                     IN  IF delivery.kind = "response"
                         THEN /\ sent.results[k].status_code
                                     = delivery.status_code
                              /\ sent.results[k].success
                                     = (delivery.status_code \in 200..299)
                         ELSE "error" \in DOMAIN sent.results[k]

\* Phase "verify" with the first delivery timing out: the two webhooks after
\* it are posted to, the inactive one and the one whose events is not a list
\* are not.
C30_Witness ==
    /\ http # None
    /\ http[1].phase = "verify"
    /\ http[1].results =
           <<[webhook |-> "all", error |-> "timeout"],
             [webhook |-> "verify", status_code |-> 204, success |-> TRUE],
             [webhook |-> "last", status_code |-> 204, success |-> TRUE]>>
    /\ Len(http[1].posted) = 3
    /\ http[1].posted[3].url = "https://hooks/last"

====
